---------------------------- MODULE Spec2Model ----------------------------
(***************************************************************************)
(* Model of the MUSE market-clearing core: the agent-level demand split    *)
(* (muse/demand_share.py), the search-space filters (muse/filters.py) and  *)
(* the MCA equilibrium loop as exercised by tests/test_mca.py.             *)
(***************************************************************************)
EXTENDS Integers, Sequences, FiniteSets, TLC

(***************************************************************************)
(* Bounds of the model.                                                    *)
(***************************************************************************)
MaxAgents == 2      \* agents handed to _inner_split
MaxRef == 2         \* number of non-zero reference quantities tried
MaxDemand == 2      \* number of non-zero demands tried
MaxStages == 3      \* filters chained after the initializer
MaxCapacity == 2    \* largest market capacity of one technology
MaxIter == 3        \* largest maxiter given to find_equilibrium with free sectors
MaxTarget == 2       \* largest target quantity of a mock sector
MaxAssetDemand == 1
MaxSettings == 3
MaxConsumption == 3
MaxAssetCapacity == 3
MaxCommitted == 1    \* largest capacity an agent commits in one period
MaxParameters == 2   \* parameters given to OutputCache
MaxPublished == 3    \* publications on the cache topic
MaxConsolidated == 2 \* calls of consolidate_cache
MaxNames == 2        \* names and arrays given to match_quantities
MaxKeyword == 2      \* largest value of a keyword argument
MaxLife == 3         \* longest technical life, in years

Technologies == {"t1", "t2"}
Cells == {"c1", "c2"}          \* (commodity, timeslice) cells

(***************************************************************************)
(* Floating point values.  Quantities are non-negative and counted in      *)
(* units of 1e-12, so that the thresholds of _inner_split are Tol.  A      *)
(* value is a fraction n/d in lowest terms; d = 0 encodes the two special  *)
(* IEEE values the numpy division produces: 1/0 is inf and 0/0 is nan.     *)
(***************************************************************************)
Tol == 1
Unit == 1000 * Tol             \* 1e-9
CompletenessTol == 100 * Tol   \* 1e-10

\* The k-th quantity tried as an input: 0, 1e-12, 1e-9, 2e-9, ...
Qty(k) == IF k <= 1 THEN k * Tol ELSE (k - 1) * Unit
Quantities(max) == {Qty(k) : k \in 0..max}

RECURSIVE GCD(_, _)
GCD(a, b) == IF b = 0 THEN a ELSE GCD(b, a % b)

Frac(n, d) ==
    IF d = 0 THEN [n |-> IF n > 0 THEN 1 ELSE 0, d |-> 0]
    ELSE IF n = 0 THEN [n |-> 0, d |-> 1]
    ELSE LET g == GCD(n, d) IN [n |-> n \div g, d |-> d \div g]

Num(i) == [n |-> i, d |-> 1]
Inf == [n |-> 1, d |-> 0]
NaN == [n |-> 0, d |-> 0]
IsNaN(x) == x.d = 0 /\ x.n = 0
IsInf(x) == x.d = 0 /\ x.n > 0
IsFinite(x) == x.d > 0
IsZero(x) == x.d > 0 /\ x.n = 0

FAdd(x, y) ==
    IF IsNaN(x) \/ IsNaN(y) THEN NaN
    ELSE IF IsInf(x) \/ IsInf(y) THEN Inf
    ELSE LET l == (x.d \div GCD(x.d, y.d)) * y.d
         IN  Frac(x.n * (l \div x.d) + y.n * (l \div y.d), l)

FMul(x, y) ==
    IF IsNaN(x) \/ IsNaN(y) THEN NaN
    ELSE IF IsInf(x) THEN (IF IsZero(y) THEN NaN ELSE Inf)
    ELSE IF IsInf(y) THEN (IF IsZero(x) THEN NaN ELSE Inf)
    ELSE Frac(x.n * y.n, x.d * y.d)

FDiv(x, y) ==
    IF IsNaN(x) \/ IsNaN(y) THEN NaN
    ELSE IF IsInf(x) THEN (IF IsInf(y) THEN NaN ELSE Inf)
    ELSE IF IsInf(y) THEN Num(0)
    ELSE Frac(x.n * y.d, x.d * y.n)

\* x > y and x <= y of two values; any comparison with nan is False.
FGt(x, y) ==
    /\ ~IsNaN(x) /\ ~IsNaN(y)
    /\ IF IsInf(x) THEN ~IsInf(y)
       ELSE IF IsInf(y) THEN FALSE
       ELSE LET l == (x.d \div GCD(x.d, y.d)) * y.d
            IN  x.n * (l \div x.d) > y.n * (l \div y.d)
FLe(x, y) == ~IsNaN(x) /\ ~IsNaN(y) /\ ~FGt(x, y)

fillna(x, v) == IF IsNaN(x) THEN v ELSE x
where(x, cond, other) == IF cond THEN x ELSE other

RECURSIVE FSum(_, _)
\* Sum of f[k] over the finite set S.
FSum(f, S) ==
    IF S = {} THEN Num(0)
    ELSE LET k == CHOOSE k \in S : TRUE IN FAdd(f[k], FSum(f, S \ {k}))

RECURSIVE NSum(_, _)
NSum(f, S) ==
    IF S = {} THEN 0
    ELSE LET k == CHOOSE k \in S : TRUE IN f[k] + NSum(f, S \ {k})

VARIABLES
    mca_pc,        \* find_equilibrium: "loop", "sectors", "done" or "raised"
    maxiter,       \* iteration budget
    equilibrium_variable,
    excluded_commodities,
    iteration,     \* iterations started so far
    market,        \* the current market guess, returned at the end
    prior_market,  \* the guess the last iteration started from
    new_market,    \* the combined market being aggregated
    converged,     \* the flag of the result
    fulfilled,     \* outcome of check_demand_fulfillment in the last iteration
    result_sectors,\* call_count of next of every sector of the result
    call_count,    \* call_count of next of the copies of this iteration
    total_calls,   \* calls of next of every sector over the whole run
    next_sector,   \* the sector to call next in this iteration
    targets,       \* mock sectors: the fixed target market of every sector
    side_effect,   \* mock sectors: the multipliers left, shared by all copies
    fl_pc,         \* search-space pipeline: "uninitialized", "filtered", "raised"
    agent,         \* tolerance (<<>> when the agent has none) and maturity_threshhold
    technologies,  \* tech_type, fuel and fixed_outputs of every technology
    agent_market,  \* market.capacity at the agent's year, per technology
    asset_demand,  \* demand share of the agent, per asset
    search_space,  \* the matrix threaded through the pipeline
    prev_space,    \* the matrix the last stage was given
    last_stage,    \* name of the last stage that ran
    stages,        \* number of filters applied so far
    split_pc,      \* position in _inner_split: "call", "done" or "raised"
    shares,        \* agent -> technology it owns -> cell -> reference quantity
    demand,        \* cell -> demand
    unassigned,    \* cell -> the unassigned term
    split_result,  \* agent -> technology -> cell -> share of the demand
    fc_pc,         \* factories: "settings", "built", "raised", "running", "done"
    fc_kind,       \* the factory called: "filters" or "objectives"
    settings,      \* the settings given to the factory
    functions,     \* the list of configured functions the factory built
    ran,           \* the functions the returned pipeline has called, in order
    table,         \* objectives: the result dataset, name -> value
    log,           \* messages logged by the factory
    ob_pc,         \* objective call: "call", "evaluated", "returned", "raised"
    objective,     \* the registered objective called
    inputs,        \* the shape of the arguments of the objective
    ob_result,     \* the array the objective computed: dims, coords, dtype, name
    ob_log,        \* messages logged by the register_objective wrapper
    dm_pc,         \* demand split: "call", "new_consumption", "new_and_retro_demands"
    dm_market,     \* consumption of the cell in the current and the forecast year
    dm_capacity,   \* capacity serving the cell in the current and the forecast year
    production_method, \* the production argument
    missing,       \* the unmet demand computed inside new_consumption
    new_demand,    \* the new demand of the cell
    service,       \* production of the forecast-year capacity
    retro_demand,  \* the retrofit demand of the cell
    sc_pc,         \* Sector.next: "next", "interacted", "investment",
                   \* "market_variables", "returned" or the error raised
    sc_agents,     \* self.agents, in registered order: capacity owned, year
    sc_before,     \* the agents as they were when Sector.next was called
    sc_shares,     \* the mapping the demand share function returned
    sc_agent_market, \* the capacity variable of agent_market
    sc_index,      \* the turn of the loop over the agents
    sc_trace,      \* the steps taken so far, in order
    sc_passed,     \* the arguments of every call of agent.next, in order
    sc_log,        \* the messages logged by investment
    sc_result,     \* the supply market_variables computed
    ch_pc,         \* OutputCache: "new", "subscribed" or "ValueError"
    ch_parameters, \* the quantity of every parameter of the constructor
    to_save,       \* self.to_save: quantity -> list of cached values
    ch_sunk,       \* quantity -> the lists its sink was called with, in order
    ch_published,  \* quantity -> every value published for it, in order
    ch_prev,       \* self.to_save before the last call
    ch_data,       \* the data of the last publication
    ch_count,      \* publications so far
    ch_consolidated, \* calls of consolidate_cache so far
    ch_last,       \* the last method called
    mq_pc,         \* match_quantities: "call" or "done"
    mq_quantity,   \* its quantity argument
    mq_data,       \* its data argument
    mq_result,     \* the error raised and the mapping returned
    np_pc,         \* net_present_value: "call" or "rates"
    np_agent,      \* the agent: its year
    np_tech,       \* technical_life and interest_rate of every candidate
    np_rates,      \* candidate -> year -> discount factor
    nr_pc,         \* new_and_retro: "regions", "returned" or the error raised
    nr_agents,     \* the agents: name, region and category of each
    nr_regions,    \* demands.region.values
    nr_index,      \* the turn of the loop over the regions
    nr_results,    \* the keys of results
    nr_assertions, \* whether assert statements are executed
    fa_pc,         \* factory: "given", "built", "returned" or "KeyError"
    fa_settings,   \* the settings handed to demand_share.factory
    fa_registry,   \* the names registered in DEMAND_SHARE
    fa_name,       \* name, as the closure holds it
    fa_params,     \* params, as the closure holds it
    fa_kwargs,     \* the keyword arguments of the latest call
    fa_called      \* the registered function called, with its keywords

split_vars == <<split_pc, shares, demand, unassigned, split_result>>
filter_vars == <<fl_pc, agent, technologies, agent_market, asset_demand, search_space,
                 prev_space, last_stage, stages>>
mca_vars == <<mca_pc, maxiter, equilibrium_variable, excluded_commodities,
              iteration, market, prior_market, new_market, converged, fulfilled,
              result_sectors, call_count, total_calls, next_sector, targets,
              side_effect>>
factory_vars == <<fc_pc, fc_kind, settings, functions, ran, table, log>>
base_vars == <<mca_vars, filter_vars, split_vars>>
objective_vars == <<ob_pc, objective, inputs, ob_result, ob_log>>
demand_vars == <<dm_pc, dm_market, dm_capacity, production_method, missing,
                 new_demand, service, retro_demand>>
ext_vars == <<factory_vars, objective_vars, demand_vars>>
sector_vars == <<sc_pc, sc_agents, sc_before, sc_shares, sc_agent_market, sc_index,
                 sc_trace, sc_passed, sc_log, sc_result>>
cache_vars == <<ch_pc, ch_parameters, to_save, ch_sunk, ch_published, ch_prev,
                ch_data, ch_count, ch_consolidated, ch_last>>
match_vars == <<mq_pc, mq_quantity, mq_data, mq_result>>
discount_vars == <<np_pc, np_agent, np_tech, np_rates>>
regional_vars == <<nr_pc, nr_agents, nr_regions, nr_index, nr_results,
                   nr_assertions>>
share_factory_vars == <<fa_pc, fa_settings, fa_registry, fa_name, fa_params,
                  fa_kwargs, fa_called>>
late_vars == <<sector_vars, cache_vars, match_vars, discount_vars, regional_vars,
               share_factory_vars>>
not_regional_vars == <<base_vars, ext_vars, sector_vars, cache_vars, match_vars,
                       discount_vars, share_factory_vars>>
not_share_factory_vars == <<base_vars, ext_vars, sector_vars, cache_vars, match_vars,
                      discount_vars, regional_vars>>
not_sector_vars == <<base_vars, ext_vars, sc_before, cache_vars, match_vars,
                     discount_vars, regional_vars, share_factory_vars>>
not_cache_vars == <<base_vars, ext_vars, sector_vars, match_vars, discount_vars,
                    regional_vars, share_factory_vars>>
not_match_vars == <<base_vars, ext_vars, sector_vars, cache_vars, discount_vars,
                    regional_vars, share_factory_vars>>
not_discount_vars == <<base_vars, ext_vars, sector_vars, cache_vars, match_vars,
                       regional_vars, share_factory_vars>>
vars == <<base_vars, ext_vars, late_vars>>

\* The idle state of a component that a specification does not run.
SplitIdle ==
    /\ split_pc = "idle" /\ shares = <<>> /\ demand = <<>>
    /\ unassigned = <<>> /\ split_result = <<>>

(***************************************************************************)
(* muse/mca.py: find_equilibrium, check_equilibrium and                    *)
(* check_demand_fulfillment, as specified in section 4.8 and as pinned     *)
(* down by tests/test_mca.py.  Market quantities are in hundredths.        *)
(***************************************************************************)
Commodities == {"k1", "k2"}
Sectors == {1, 2}
NSectors == Cardinality(Sectors)
Hundred == 100                  \* market quantities are in hundredths
EquilibriumTol == 10            \* tol = 0.1
UnmetTol == 0 - 10              \* tol_unmet_demand = -0.1
EquilibriumVariables == {"demand", "prices"}
CheckedValues == {0, 5, 15}     \* 0, tol / 2 and tol * 1.5

Market(su, co, pr) == [supply |-> su, consumption |-> co, prices |-> pr]
ZeroQuantity == [c \in Commodities |-> 0]
\* market["supply"][:] = 0, market["consumption"][:] = 0, market["prices"][:] = 1
InitialMarket == Market(ZeroQuantity, ZeroQuantity, [c \in Commodities |-> Hundred])
NoMarket == Market(<<>>, <<>>, <<>>)

Abs(x) == IF x < 0 THEN 0 - x ELSE x

\* Mutant: the supply is compared whatever the designated variable.
check_equilibrium_supply_only(new, old, tol, variable) ==
    \A c \in Commodities : Abs(new.supply[c] - old.supply[c]) < tol

\* The change of the designated variable between two markets is below the
\* tolerance in every cell; "demand" designates the supply.
check_equilibrium(new, old, tol, variable) ==
    IF variable = "demand"
    THEN \A c \in Commodities : Abs(new.supply[c] - old.supply[c]) < tol
    ELSE \A c \in Commodities : Abs(new.prices[c] - old.prices[c]) < tol

\* Supply covers consumption, up to the tolerance, in every commodity that is
\* not excluded.
check_demand_fulfillment(mkt, tol, excluded) ==
    \A c \in Commodities \ excluded : mkt.supply[c] - mkt.consumption[c] >= tol

\* Supply, consumption and costs of one sector added to the combined market.
aggregate(acc, out) ==
    Market([c \in Commodities |-> acc.supply[c] + out.supply[c]],
           [c \in Commodities |-> acc.consumption[c] + out.consumption[c]],
           [c \in Commodities |-> acc.prices[c] + out.costs[c]])

SectorOutput(su, co, cs) == [supply |-> su, consumption |-> co, costs |-> cs]

Only(c, v) == [k \in Commodities |-> IF k = c THEN v ELSE 0]

\* The markets a sector of any behaviour is made to return: nothing, a small
\* or a large supply of k1 (with or without costs), a supply of k2, a
\* consumption of k2.
FreeOutputs ==
    {SectorOutput(ZeroQuantity, ZeroQuantity, ZeroQuantity),
     SectorOutput(Only("k1", 5), ZeroQuantity, ZeroQuantity),
     SectorOutput(Only("k1", 20), ZeroQuantity, Only("k1", 20)),
     SectorOutput(Only("k2", 20), ZeroQuantity, ZeroQuantity),
     SectorOutput(ZeroQuantity, Only("k2", 20), ZeroQuantity)}

\* Mutant: the budget is tested off by one.
loop_continues_off_by_one(i, budget, conv) == i <= budget /\ ~conv

\* The loop goes on while the iteration budget lasts and no equilibrium is found.
loop_continues(i, budget, conv) == i < budget /\ ~conv

mca_data == <<maxiter, equilibrium_variable, excluded_commodities, targets>>

\* Mutant: the sectors are not copied, the objects of the last iteration are
\* called again.
StartIterationNoCopy ==
    /\ mca_pc = "loop"
    /\ loop_continues(iteration, maxiter, converged)
    /\ iteration' = iteration + 1
    /\ prior_market' = market
    /\ new_market' = Market(ZeroQuantity, ZeroQuantity, ZeroQuantity)
    /\ next_sector' = 1
    /\ mca_pc' = "sectors"
    /\ UNCHANGED <<market, converged, fulfilled, result_sectors, side_effect,
                   total_calls, call_count>>
    /\ UNCHANGED mca_data
    /\ UNCHANGED <<filter_vars, split_vars, ext_vars, late_vars>>

\* for i in range(maxiter): the sectors are deep-copied for the iteration
StartIteration ==
    /\ mca_pc = "loop"
    /\ loop_continues(iteration, maxiter, converged)
    /\ iteration' = iteration + 1
    /\ prior_market' = market
    /\ new_market' = Market(ZeroQuantity, ZeroQuantity, ZeroQuantity)
    /\ call_count' = [s \in Sectors |-> 0]
    /\ next_sector' = 1
    /\ mca_pc' = "sectors"
    /\ UNCHANGED <<market, converged, fulfilled, result_sectors, side_effect,
                   total_calls>>
    /\ UNCHANGED mca_data
    /\ UNCHANGED <<filter_vars, split_vars, ext_vars, late_vars>>

\* sector.next(market) of the copy of the next sector returned `out`
SectorReturned(out) ==
    /\ new_market' = aggregate(new_market, out)
    /\ call_count' = [call_count EXCEPT ![next_sector] = @ + 1]
    /\ total_calls' = [total_calls EXCEPT ![next_sector] = @ + 1]
    /\ next_sector' = next_sector + 1
    /\ UNCHANGED <<mca_pc, iteration, market, prior_market, converged, fulfilled,
                   result_sectors>>
    /\ UNCHANGED mca_data
    /\ UNCHANGED <<filter_vars, split_vars, ext_vars, late_vars>>

\* A sector of any behaviour: it returns any market.
CallSector ==
    /\ mca_pc = "sectors"
    /\ next_sector <= NSectors
    /\ \E out \in FreeOutputs : SectorReturned(out)
    /\ UNCHANGED side_effect

\* Mutant: the multiplier is ignored.
scaled_by_one(q, pct) == [c \in Commodities |-> q[c] * Hundred]

\* The mock sector of the test: its target scaled by side_effect.pop(0).
scaled(q, pct) == [c \in Commodities |-> q[c] * pct]

\* Mutant: the multiplier is read but not popped.
CallMockSectorNoPop ==
    /\ mca_pc = "sectors"
    /\ next_sector <= NSectors
    /\ SectorReturned(
          SectorOutput(
              scaled(targets[next_sector].supply, Head(side_effect[next_sector])),
              scaled(targets[next_sector].consumption, Head(side_effect[next_sector])),
              scaled(targets[next_sector].costs, Head(side_effect[next_sector]))))
    /\ UNCHANGED side_effect

CallMockSector ==
    /\ mca_pc = "sectors"
    /\ next_sector <= NSectors
    /\ IF side_effect[next_sector] = <<>>
       THEN \* pop from an empty list: the IndexError leaves find_equilibrium
            /\ mca_pc' = "raised"
            /\ UNCHANGED <<iteration, market, prior_market, new_market, converged,
                           fulfilled, result_sectors, call_count, total_calls,
                           next_sector, side_effect>>
            /\ UNCHANGED mca_data
            /\ UNCHANGED <<filter_vars, split_vars, ext_vars, late_vars>>
       ELSE /\ SectorReturned(
                 SectorOutput(
                     scaled(targets[next_sector].supply, Head(side_effect[next_sector])),
                     scaled(targets[next_sector].consumption, Head(side_effect[next_sector])),
                     scaled(targets[next_sector].costs, Head(side_effect[next_sector]))))
            /\ side_effect' = [side_effect EXCEPT ![next_sector] = Tail(@)]

\* Mutant: the flag also requires the demand to be fulfilled.
CheckConvergenceBoth ==
    /\ mca_pc = "sectors"
    /\ next_sector > NSectors
    /\ market' = new_market
    /\ converged' =
          /\ check_equilibrium(new_market, prior_market, EquilibriumTol,
                               equilibrium_variable)
          /\ check_demand_fulfillment(new_market, UnmetTol, excluded_commodities)
    /\ fulfilled' = check_demand_fulfillment(new_market, UnmetTol,
                                             excluded_commodities)
    /\ result_sectors' = call_count
    /\ mca_pc' = "loop"
    /\ UNCHANGED <<iteration, prior_market, new_market, call_count, total_calls,
                   next_sector, side_effect>>
    /\ UNCHANGED mca_data
    /\ UNCHANGED <<filter_vars, split_vars, ext_vars, late_vars>>

\* All sectors have returned: the combined market replaces the guess and the
\* two criteria are evaluated.
CheckConvergence ==
    /\ mca_pc = "sectors"
    /\ next_sector > NSectors
    /\ market' = new_market
    /\ converged' = check_equilibrium(new_market, prior_market, EquilibriumTol,
                                      equilibrium_variable)
    /\ fulfilled' = check_demand_fulfillment(new_market, UnmetTol,
                                             excluded_commodities)
    /\ result_sectors' = call_count
    /\ mca_pc' = "loop"
    /\ UNCHANGED <<iteration, prior_market, new_market, call_count, total_calls,
                   next_sector, side_effect>>
    /\ UNCHANGED mca_data
    /\ UNCHANGED <<filter_vars, split_vars, ext_vars, late_vars>>

\* return FindEquilibriumResults(converged, market, sectors)
Return ==
    /\ mca_pc = "loop"
    /\ ~loop_continues(iteration, maxiter, converged)
    /\ mca_pc' = "done"
    /\ UNCHANGED <<iteration, market, prior_market, new_market, converged, fulfilled,
                   result_sectors, call_count, total_calls, next_sector, side_effect>>
    /\ UNCHANGED mca_data
    /\ UNCHANGED <<filter_vars, split_vars, ext_vars, late_vars>>

MCAStart ==
    /\ mca_pc = "loop"
    /\ iteration = 0
    /\ market = InitialMarket
    /\ prior_market = InitialMarket
    /\ new_market = InitialMarket
    /\ converged = FALSE
    /\ fulfilled = FALSE
    /\ result_sectors = [s \in Sectors |-> 0]
    /\ call_count = [s \in Sectors |-> 0]
    /\ total_calls = [s \in Sectors |-> 0]
    /\ next_sector = 1

NoTargets == [s \in Sectors |-> SectorOutput(ZeroQuantity, ZeroQuantity, ZeroQuantity)]

MCAInit ==
    /\ MCAStart
    /\ maxiter \in 0..MaxIter
    /\ equilibrium_variable \in EquilibriumVariables
    /\ excluded_commodities \in SUBSET Commodities
    /\ targets = NoTargets
    /\ side_effect = [s \in Sectors |-> <<>>]

\* side_effect_a = side_effect_b = [0.5, 0.7, 0.9, 0.95, 1.0, 1.0, 1.0]
MockSideEffect == <<50, 70, 90, 95, 100, 100, 100>>
ScenarioMaxIters == {1, 5, 8}

\* sector_market: a commodity of a sector is an enduse (supply), a
\* consumable (consumption) or neither; its costs are the same draw.
MockTargets ==
    {SectorOutput([c \in Commodities |-> IF k[c] = "enduse" THEN v[c] ELSE 0],
                  [c \in Commodities |-> IF k[c] = "consumable" THEN v[c] ELSE 0],
                  v) :
        k \in [Commodities -> {"enduse", "consumable"}],
        v \in [Commodities -> 0..MaxTarget]}

ScenarioInit ==
    /\ MCAStart
    /\ maxiter \in ScenarioMaxIters
    /\ equilibrium_variable = "demand"
    /\ excluded_commodities = {}
    /\ targets \in [Sectors -> MockTargets]
    /\ side_effect = [s \in Sectors |-> MockSideEffect]

MCAIdle ==
    /\ mca_pc = "idle" /\ iteration = 0 /\ maxiter = 0
    /\ equilibrium_variable = "demand" /\ excluded_commodities = {}
    /\ market = NoMarket /\ prior_market = NoMarket /\ new_market = NoMarket
    /\ converged = FALSE /\ fulfilled = FALSE
    /\ result_sectors = <<>> /\ call_count = <<>> /\ total_calls = <<>>
    /\ next_sector = 0 /\ targets = <<>> /\ side_effect = <<>>

MCANext ==
    \/ StartIteration
    \/ CallSector
    \/ CheckConvergence
    \/ Return

ScenarioNext ==
    \/ StartIteration
    \/ CallMockSector
    \/ CheckConvergence
    \/ Return

\* check_equilibrium called on its own, on any two markets.
CheckedMarkets ==
    {Market(su, ZeroQuantity, pr) :
        su \in [Commodities -> CheckedValues], pr \in [Commodities -> CheckedValues]}

CheckEquilibriumInit ==
    /\ mca_pc = "check_equilibrium"
    /\ market \in CheckedMarkets
    /\ prior_market \in CheckedMarkets
    /\ equilibrium_variable \in EquilibriumVariables
    /\ iteration = 0 /\ maxiter = 0 /\ excluded_commodities = {}
    /\ new_market = NoMarket /\ converged = FALSE /\ fulfilled = FALSE
    /\ result_sectors = <<>> /\ call_count = <<>> /\ total_calls = <<>>
    /\ next_sector = 0 /\ targets = <<>> /\ side_effect = <<>>

CheckEquilibrium ==
    /\ mca_pc = "check_equilibrium"
    /\ converged' = check_equilibrium(market, prior_market, EquilibriumTol,
                                      equilibrium_variable)
    /\ mca_pc' = "checked"
    /\ UNCHANGED <<iteration, market, prior_market, new_market, fulfilled,
                   result_sectors, call_count, total_calls, next_sector, side_effect>>
    /\ UNCHANGED mca_data
    /\ UNCHANGED <<filter_vars, split_vars, ext_vars, late_vars>>

CheckEquilibriumNext == CheckEquilibrium

(***************************************************************************)
(* muse/filters.py: the search-space pipeline                              *)
(***************************************************************************)
Types == {"x", "y"}             \* values of tech_type and of fuel
Enduses == {"e1"}               \* commodities tagged as enduse
NoTech == "-"                   \* the only index of an absent technology axis
DefaultTolerance == 1           \* quantities of the pipeline are in units of 1e-8

\* A search space: its axes and the set of its True entries <<asset,
\* replacement, technology>>.  A matrix without a technology dimension has
\* technology = {NoTech}.
Space(as, rp, tc, val) ==
    [asset |-> as, replacement |-> rp, technology |-> tc, val |-> val]
EmptySpace == Space({}, {}, {NoTech}, {})
has_technology_dim(sp) == sp.technology # {NoTech}
Entries(sp) == sp.asset \X sp.replacement \X sp.technology
TrueCount(sp) == Cardinality(sp.val)

\* search_space & cond, for a condition over (asset, replacement) given as
\* the set of pairs where it is True
narrow(sp, cond) ==
    [sp EXCEPT !.val = {e \in sp.val : <<e[1], e[2]>> \in cond}]

\* getattr(agent, "tolerance", 1e-8)
tolerance(ag) == IF ag.tolerance = <<>> THEN DefaultTolerance ELSE ag.tolerance[1]

\* demand.sum(not_assets): the demand of an asset summed over its cells
summed_demand(dem, a) == NSum(dem[a], DOMAIN dem[a])

initialize_from_technologies_at_tolerance(ag, dem, techs) ==
    LET condtechs == {a \in DOMAIN dem : summed_demand(dem, a) >= tolerance(ag)}
    IN  Space(condtechs, Technologies, {NoTech},
              condtechs \X Technologies \X {NoTech})
initialize_from_technologies(ag, dem, techs) ==
    LET condtechs == {a \in DOMAIN dem : summed_demand(dem, a) > tolerance(ag)}
    IN  Space(condtechs, Technologies, {NoTech},
              condtechs \X Technologies \X {NoTech})

\* tech_enduses > 0, per technology
tech_enduses(techs, t) == {c \in Enduses : techs.fixed_outputs[t][c] > 0}

same_enduse(ag, sp, techs) ==
    LET cond == {p \in sp.asset \X sp.replacement :
                    LET a == p[1]
                        r == p[2]
                    IN  tech_enduses(techs, a) \subseteq tech_enduses(techs, r)}
    IN  narrow(sp, cond)

identity(ag, sp) == sp

similar_technology(ag, sp, techs) ==
    LET cond == {p \in sp.asset \X sp.replacement :
                    LET a == p[1]
                        r == p[2]
                    IN  techs.tech_type[a] = techs.tech_type[r]}
    IN  narrow(sp, cond)

\* Mutant: the condition is joined with | instead of &.
same_fuels_or(ag, sp, techs) ==
    [sp EXCEPT !.val = sp.val \cup
        {e \in Entries(sp) : techs.fuel[e[1]] = techs.fuel[e[2]]}]

same_fuels(ag, sp, techs) ==
    LET cond == {p \in sp.asset \X sp.replacement :
                    LET a == p[1]
                        r == p[2]
                    IN  techs.fuel[a] = techs.fuel[r]}
    IN  narrow(sp, cond)

\* result.loc[{"replacement": both.values}] looks up every technology of
\* market.capacity on the replacement axis: a missing label is a KeyError.
currently_existing_tech_raises(sp, mkt) ==
    ~(DOMAIN mkt.capacity \subseteq sp.replacement)

currently_existing_tech(ag, sp, mkt) ==
    LET cond == {p \in sp.asset \X sp.replacement :
                    LET a == p[1]
                        r == p[2]
                    IN  r \in DOMAIN mkt.capacity /\ mkt.capacity[r] > tolerance(ag)}
    IN  narrow(sp, cond)

currently_referenced_tech(ag, sp, mkt) ==
    LET cond == {p \in sp.asset \X sp.replacement :
                    LET a == p[1]
                        r == p[2]
                    IN  r \in DOMAIN mkt.capacity}
    IN  narrow(sp, cond)

\* (capacity * outputs).sum("technology"), per enduse commodity
enduse_production(techs, mkt, c) ==
    NSum([t \in DOMAIN mkt.capacity |-> mkt.capacity[t] * techs.fixed_outputs[t][c]],
         DOMAIN mkt.capacity)

\* (enduse_market_share <= capacity).all("commodity"): a condition over the
\* technology dimension of market.capacity; maturity_threshhold is in percent.
mature(ag, techs, mkt, t) ==
    \A c \in Enduses :
        ag.maturity_threshhold * enduse_production(techs, mkt, c)
            <= 100 * mkt.capacity[t]

\* search_space & condition broadcasts the matrix over the technology
\* dimension of the condition (an inner join when the matrix already has one).
maturity(ag, sp, techs, mkt) ==
    LET axis == IF has_technology_dim(sp)
                THEN sp.technology \cap DOMAIN mkt.capacity
                ELSE DOMAIN mkt.capacity
    IN  Space(sp.asset, sp.replacement, axis,
              {e \in sp.asset \X sp.replacement \X axis :
                  /\ \E f \in sp.val :
                        /\ f[1] = e[1] /\ f[2] = e[2]
                        /\ (has_technology_dim(sp) => f[3] = e[3])
                  /\ mature(ag, techs, mkt, e[3])})

\* sel(replacement=mask) takes a one-dimensional boolean mask only.
compress_raises(sp) == has_technology_dim(sp)

compress_all_assets(sp) ==
    LET kept == {r \in sp.replacement :
                    \A a \in sp.asset : \E e \in sp.val : e[1] = a /\ e[2] = r}
    IN  Space(sp.asset, kept, sp.technology, {e \in sp.val : e[2] \in kept})
compress(sp) ==
    LET kept == {r \in sp.replacement : \E e \in sp.val : e[2] = r}
    IN  Space(sp.asset, kept, sp.technology, {e \in sp.val : e[2] \in kept})

with_asset_technology(sp) ==
    [sp EXCEPT !.val = sp.val \cup {e \in Entries(sp) : e[1] = e[2]}]

OrdinaryFilters ==
    {"same_enduse", "identity", "similar_technology", "same_fuels",
     "currently_existing_tech", "currently_referenced_tech", "maturity"}

FilterData == <<agent, technologies, agent_market, asset_demand>>

\* A stage of the pipeline returned `result`.
Returned(name, result) ==
    /\ fl_pc' = "filtered"
    /\ prev_space' = search_space
    /\ search_space' = result
    /\ last_stage' = name
    /\ stages' = stages + 1
    /\ UNCHANGED FilterData
    /\ UNCHANGED <<mca_vars, split_vars, ext_vars, late_vars>>

\* A stage of the pipeline raised: the pipeline stops without a result.
Raised(name) ==
    /\ fl_pc' = "raised"
    /\ prev_space' = search_space
    /\ last_stage' = name
    /\ UNCHANGED <<search_space, stages>>
    /\ UNCHANGED FilterData
    /\ UNCHANGED <<mca_vars, split_vars, ext_vars, late_vars>>

CanFilter == fl_pc = "filtered" /\ stages < MaxStages

Initialize ==
    /\ fl_pc = "uninitialized"
    /\ fl_pc' = "filtered"
    /\ prev_space' = search_space
    /\ search_space' = initialize_from_technologies(agent, asset_demand, technologies)
    /\ last_stage' = "initialize_from_technologies"
    /\ UNCHANGED stages
    /\ UNCHANGED FilterData
    /\ UNCHANGED <<mca_vars, split_vars, ext_vars, late_vars>>

SameEnduse ==
    /\ CanFilter
    /\ Returned("same_enduse", same_enduse(agent, search_space, technologies))

Identity ==
    /\ CanFilter
    /\ Returned("identity", identity(agent, search_space))

SimilarTechnology ==
    /\ CanFilter
    /\ Returned("similar_technology",
                similar_technology(agent, search_space, technologies))

SameFuels ==
    /\ CanFilter
    /\ Returned("same_fuels", same_fuels(agent, search_space, technologies))

CurrentlyExistingTech ==
    /\ CanFilter
    /\ IF currently_existing_tech_raises(search_space, agent_market)
       THEN Raised("currently_existing_tech")
       ELSE Returned("currently_existing_tech",
                     currently_existing_tech(agent, search_space, agent_market))

CurrentlyReferencedTech ==
    /\ CanFilter
    /\ Returned("currently_referenced_tech",
                currently_referenced_tech(agent, search_space, agent_market))

Maturity ==
    /\ CanFilter
    /\ Returned("maturity", maturity(agent, search_space, technologies, agent_market))

Compress ==
    /\ CanFilter
    /\ IF compress_raises(search_space)
       THEN Raised("compress")
       ELSE Returned("compress", compress(search_space))

WithAssetTechnology ==
    /\ CanFilter
    /\ Returned("with_asset_technology", with_asset_technology(search_space))

\* The market capacity covers any subset of the technologies.
Capacities ==
    UNION {[techs -> 0..MaxCapacity] : techs \in SUBSET Technologies}

\* The demand of every asset, per cell.
AssetDemands == [Technologies -> [Cells -> 0..MaxAssetDemand]]
\* After the initializer the pipeline depends on the demand through the asset
\* axis only: its runs take the demands that are the same in every cell.
PipelineDemands ==
    {d \in AssetDemands : \A a \in Technologies : d[a]["c1"] = d[a]["c2"]}

FilterInitWith(demands) ==
    /\ fl_pc = "uninitialized"
    /\ agent \in [tolerance : {<<>>, <<0>>}, maturity_threshhold : {50, 100}]
    /\ technologies \in [tech_type : [Technologies -> Types],
                         fuel : [Technologies -> Types],
                         fixed_outputs : [Technologies -> [Enduses -> 0..1]]]
    /\ technologies.tech_type["t1"] = "x"
    /\ technologies.fuel["t1"] = "x"
    /\ agent_market \in [capacity : Capacities]
    /\ asset_demand \in demands
    /\ search_space = EmptySpace
    /\ prev_space = EmptySpace
    /\ last_stage = "none"
    /\ stages = 0

FilterInit == FilterInitWith(PipelineDemands)
InitializerInit == FilterInitWith(AssetDemands)

FilterIdle ==
    /\ fl_pc = "idle" /\ agent = <<>> /\ technologies = <<>> /\ agent_market = <<>>
    /\ asset_demand = <<>> /\ search_space = EmptySpace /\ prev_space = EmptySpace
    /\ last_stage = "none" /\ stages = 0

InitializerNext == Initialize

FilterNext ==
    \/ Initialize
    \/ SameEnduse
    \/ Identity
    \/ SimilarTechnology
    \/ SameFuels
    \/ CurrentlyExistingTech
    \/ CurrentlyReferencedTech
    \/ Maturity
    \/ Compress
    \/ WithAssetTechnology

(***************************************************************************)
(* Claims on the search-space filters                                      *)
(***************************************************************************)
\* C9: an ordinary filter (same_enduse, identity, similar_technology,
\* same_fuels, currently_existing_tech, currently_referenced_tech, maturity)
\* only narrows: every entry that is True in its output was True in its
\* input, and the count of True entries is not larger than before.
C9_OrdinaryFiltersNarrow ==
    (fl_pc = "filtered" /\ last_stage \in OrdinaryFilters) =>
        /\ \A e \in search_space.val :
              \E f \in prev_space.val : f[1] = e[1] /\ f[2] = e[2]
        /\ TrueCount(search_space) <= TrueCount(prev_space)

\* C10: after with_asset_technology, anywhere in a pipeline, every asset of
\* the asset axis has its own technology as a True replacement candidate and
\* no entry that was True before has become False.
C10_AssetTechnologyKept ==
    (fl_pc = "filtered" /\ last_stage = "with_asset_technology") =>
        /\ \A a \in search_space.asset : \A t \in search_space.technology :
              <<a, a, t>> \in search_space.val
        /\ prev_space.val \subseteq search_space.val

\* C11: compress changes only the replacement axis: it removes exactly the
\* replacement columns that are False for every asset, keeps the asset axis,
\* and leaves the value of every remaining pair, hence the set of True pairs,
\* as it was.
C11_CompressProjection ==
    (fl_pc = "filtered" /\ last_stage = "compress") =>
        /\ search_space.asset = prev_space.asset
        /\ search_space.technology = prev_space.technology
        /\ search_space.replacement =
              {r \in prev_space.replacement : \E e \in prev_space.val : e[2] = r}
        /\ search_space.val = prev_space.val

C11_Witness ==
    /\ fl_pc = "filtered" /\ last_stage = "compress"
    /\ search_space.replacement # prev_space.replacement
    /\ search_space.val # {}
    /\ \E a \in search_space.asset : \E r \in search_space.replacement :
          <<a, r, NoTech>> \notin search_space.val

\* C12: initialize_from_technologies returns an all-True matrix whose asset
\* axis holds exactly the assets whose demand summed over the other
\* dimensions is strictly greater than the agent's tolerance (the default when
\* the agent has none) and whose replacement axis holds every technology.
C12_Initializer ==
    (fl_pc = "filtered" /\ last_stage = "initialize_from_technologies") =>
        /\ search_space.asset =
              {a \in Technologies :
                  asset_demand[a]["c1"] + asset_demand[a]["c2"] >
                      (IF agent.tolerance = <<>> THEN DefaultTolerance
                       ELSE agent.tolerance[1])}
        /\ search_space.replacement = Technologies
        /\ ~has_technology_dim(search_space)
        /\ search_space.val = Entries(search_space)

\* an asset exactly at the default tolerance is dropped, another is kept
C12_Witness ==
    /\ fl_pc = "filtered" /\ last_stage = "initialize_from_technologies"
    /\ agent.tolerance = <<>>
    /\ asset_demand["t1"]["c1"] + asset_demand["t1"]["c2"] = DefaultTolerance
    /\ "t1" \notin search_space.asset
    /\ "t2" \in search_space.asset

(***************************************************************************)
(* Composition of the ordinary filters                                     *)
(***************************************************************************)
\* The outcome of a filter call: the matrix returned, or the error raised.
Outcome(raised, sp) == [raised |-> raised, space |-> sp]

\* SEARCH_SPACE_FILTERS[name](agent, search_space, technologies, market)
apply_filter(name, sp) ==
    CASE name = "same_enduse" -> Outcome(FALSE, same_enduse(agent, sp, technologies))
      [] name = "identity" -> Outcome(FALSE, identity(agent, sp))
      [] name = "similar_technology" ->
            Outcome(FALSE, similar_technology(agent, sp, technologies))
      [] name = "same_fuels" -> Outcome(FALSE, same_fuels(agent, sp, technologies))
      [] name = "currently_existing_tech" ->
            IF currently_existing_tech_raises(sp, agent_market)
            THEN Outcome(TRUE, EmptySpace)
            ELSE Outcome(FALSE, currently_existing_tech(agent, sp, agent_market))
      [] name = "currently_referenced_tech" ->
            Outcome(FALSE, currently_referenced_tech(agent, sp, agent_market))
      [] name = "maturity" ->
            Outcome(FALSE, maturity(agent, sp, technologies, agent_market))

\* for function in functions: result = function(agent, result, ...), for the
\* two functions first and second
chained(first, second, sp) ==
    LET result == apply_filter(first, sp)
    IN  IF result.raised THEN result ELSE apply_filter(second, result.space)

\* Any matrix over an asset axis and a replacement axis is a search space
\* a filter can be given.
SearchSpaces ==
    UNION {UNION {{Space(as, rp, {NoTech}, val) :
                      val \in SUBSET (as \X rp \X {NoTech})} :
                  rp \in SUBSET Technologies} :
           as \in SUBSET Technologies}

\* One ordinary filter called on a given search space.
ApplyOrdinary ==
    /\ fl_pc = "given"
    /\ \E F \in OrdinaryFilters :
          LET result == apply_filter(F, search_space)
          IN  IF result.raised THEN Raised(F) ELSE Returned(F, result.space)

ComposeInit ==
    /\ fl_pc = "given"
    /\ agent \in [tolerance : {<<>>, <<0>>}, maturity_threshhold : {50, 100}]
    /\ technologies \in [tech_type : [Technologies -> Types],
                         fuel : [Technologies -> Types],
                         fixed_outputs : [Technologies -> [Enduses -> 0..1]]]
    /\ technologies.tech_type["t1"] = "x"
    /\ technologies.fuel["t1"] = "x"
    /\ agent_market \in [capacity : Capacities]
    /\ asset_demand = [a \in Technologies |-> [c \in Cells |-> 0]]
    /\ search_space \in SearchSpaces
    /\ prev_space = EmptySpace
    /\ last_stage = "none"
    /\ stages = 0

ComposeNext == ApplyOrdinary

\* C28: an ordinary filter F applied twice to a search space S gives what it
\* gives applied once, and with any ordinary filter G the outcome of F then G
\* is the outcome of G then F (the same matrix, or an error in both orders),
\* the agent, the technologies and the market being the same in every call.
C28_OrderIndependentIdempotent ==
    (fl_pc \in {"filtered", "raised"} /\ last_stage \in OrdinaryFilters) =>
        LET S == prev_space
            F == last_stage
        IN  /\ apply_filter(F, S) =
                  Outcome(fl_pc = "raised",
                          IF fl_pc = "raised" THEN EmptySpace ELSE search_space)
            /\ chained(F, F, S) = apply_filter(F, S)
            /\ \A G \in OrdinaryFilters : chained(F, G, S) = chained(G, F, S)

\* a filter was applied that removes entries another filter keeps, and the
\* other removes entries this one keeps: the order could matter
C28_Witness ==
    /\ fl_pc = "filtered" /\ last_stage \in OrdinaryFilters
    /\ \E G \in OrdinaryFilters :
          LET g == apply_filter(G, prev_space)
          IN  /\ ~g.raised
              /\ ~(search_space.val \subseteq g.space.val)
              /\ ~(g.space.val \subseteq search_space.val)
              /\ chained(last_stage, G, prev_space).space.val # {}

(***************************************************************************)
(* muse/demand_share.py: _inner_split                                      *)
(***************************************************************************)
\* The reference quantities of one agent: method(capacity) grouped by
\* technology; its asset axis is the set of technologies the agent owns.
AgentShares ==
    UNION {[owned -> [Cells -> Quantities(MaxRef)]] : owned \in SUBSET Technologies}

\* asset axis of sum(shares.values()): xarray adds with an inner join.
summed_assets(sh) ==
    {t \in Technologies : \A u \in DOMAIN sh : t \in DOMAIN sh[u]}

\* sum(shares.values()).sum("asset")
total(sh, c) ==
    NSum([u \in DOMAIN sh |->
            NSum([t \in summed_assets(sh) |-> sh[u][t][c]], summed_assets(sh))],
         DOMAIN sh)

unassigned_term(sh, dem, c) ==
    where(FDiv(Num(dem[c]), Num(Len(sh) * Cardinality(summed_assets(sh)))),
          FGt(Num(dem[c]), Num(Tol)) /\ FLe(Num(total(sh, c)), Num(Tol)),
          Num(0))

share_of(sh, dem, u, t, c) ==
    FAdd(fillna(FMul(fillna(FDiv(Num(sh[u][t][c]), Num(total(sh, c))), Num(0)),
                     Num(dem[c])),
                Num(0)),
         unassigned_term(sh, dem, c))

_inner_split ==
    /\ split_pc = "call"
    /\ IF Len(shares) = 0
       THEN \* sum of an empty list is the integer 0, which has no sum method
            /\ split_pc' = "raised"
            /\ UNCHANGED <<unassigned, split_result>>
       ELSE /\ split_pc' = "done"
            /\ unassigned' = [c \in Cells |-> unassigned_term(shares, demand, c)]
            /\ split_result' =
                 [u \in DOMAIN shares |->
                    [t \in DOMAIN shares[u] |->
                       [c \in Cells |-> share_of(shares, demand, u, t, c)]]]
    /\ UNCHANGED <<shares, demand>>
    /\ UNCHANGED <<mca_vars, filter_vars, ext_vars, late_vars>>


SplitInit ==
    /\ split_pc = "call"
    /\ \E n \in 0..MaxAgents : shares \in [1..n -> AgentShares]
    /\ demand \in [Cells -> Quantities(MaxDemand)]
    /\ unassigned = [c \in Cells |-> Num(0)]
    /\ split_result = <<>>

SplitNext == _inner_split

(***************************************************************************)
(* muse/filters.py and muse/objectives.py: the factories                   *)
(***************************************************************************)
SEARCH_SPACE_INITIALIZERS == {"initialize_from_technologies"}
SEARCH_SPACE_FILTERS ==
    {"same_enduse", "all", "similar", "fueltype", "existing",
     "currently_referenced_tech", "maturity", "compress", "with_asset_technology"}
OBJECTIVES ==
    {"comfort", "efficiency", "capacity", "fixed_costs", "capital_costs",
     "emissions", "capacity_in_use", "consumption", "fuel_consumption_cost",
     "LCOE", "NPV", "NPC", "EAC"}

\* Names a configuration may hold: registered ones and one that is not.
FilterSettingNames ==
    {"initialize_from_technologies", "same_enduse", "compress", "no_such_filter"}
ObjectiveSettingNames == {"comfort", "LCOE", "no_such_objective"}

\* One configured stage: a name alone (a Text item, kwargs = <<>>) or a
\* mapping with a name and extra parameters.
Stage(name, kwargs) == [name |-> name, kwargs |-> kwargs]
Kwargs == {<<>>, <<1>>}
Stages(names) == [name : names, kwargs : Kwargs]
SeqsUpTo(S, n) == UNION {[1..k -> S] : k \in 0..n}

\* The settings argument: None (argument left out), one Text, one Mapping, or
\* a sequence of Texts and Mappings.
Settings(names) ==
    {[form |-> "none", items |-> <<>>]}
    \cup {[form |-> "text", items |-> <<Stage(n, <<>>)>>] : n \in names}
    \cup {[form |-> "mapping", items |-> <<st>>] : st \in Stages(names)}
    \cup {[form |-> "sequence", items |-> q] : q \in SeqsUpTo(Stages(names), MaxSettings)}

DefaultInitializer == Stage("initialize_from_technologies", <<>>)

\* filters.factory: the standardized list of parameters
filter_parameters_no_default(cfg) ==
    LET given == IF Len(cfg.items) = 0 THEN <<DefaultInitializer>> ELSE cfg.items
    IN  given
filter_parameters(cfg) ==
    LET given == IF Len(cfg.items) = 0 THEN <<DefaultInitializer>> ELSE cfg.items
    IN  IF given[1].name \notin SEARCH_SPACE_INITIALIZERS
        THEN <<DefaultInitializer>> \o given
        ELSE given

Function(registry, st) == [registry |-> registry, name |-> st.name, kwargs |-> st.kwargs]

\* filters.factory: a lookup of the list raises KeyError
filters_factory_raises(cfg) ==
    LET parameters == filter_parameters(cfg)
    IN  \/ parameters[1].name \notin SEARCH_SPACE_INITIALIZERS
        \/ \E i \in 2..Len(parameters) : parameters[i].name \notin SEARCH_SPACE_FILTERS

filters_functions(cfg) ==
    LET parameters == filter_parameters(cfg)
    IN  [i \in 1..Len(parameters) |->
            Function(IF i = 1 THEN "initializer" ELSE "filter", parameters[i])]

\* objectives.factory: the default argument is "fixed_costs"
objective_params(cfg) ==
    IF cfg.form = "none" THEN <<Stage("fixed_costs", <<>>)>> ELSE cfg.items

named_twice(params) ==
    Cardinality({params[i].name : i \in 1..Len(params)}) # Len(params)

objectives_factory_raises(cfg) ==
    \E i \in 1..Len(objective_params(cfg)) :
        objective_params(cfg)[i].name \notin OBJECTIVES

objectives_functions(cfg) ==
    [i \in 1..Len(objective_params(cfg)) |->
        Function("objective", objective_params(cfg)[i])]

\* What a configured objective returns: it depends on the objective and on
\* the parameters bound to it.
objective_value(fn) == <<fn.name, fn.kwargs>>

\* result[name] = value on the dataset
set_variable_keep_first(tbl, name, value) ==
    [n \in DOMAIN tbl \cup {name} |-> IF n \in DOMAIN tbl THEN tbl[n] ELSE value]
set_variable(tbl, name, value) ==
    [n \in DOMAIN tbl \cup {name} |-> IF n = name THEN value ELSE tbl[n]]

FiltersFactoryLazy ==
    /\ fc_pc = "settings" /\ fc_kind = "filters"
    /\ fc_pc' = "built"
    /\ functions' = IF filters_factory_raises(settings) THEN <<>>
                    ELSE filters_functions(settings)
    /\ UNCHANGED <<fc_kind, settings, ran, table, log>>
    /\ UNCHANGED <<base_vars, objective_vars, demand_vars, late_vars>>
FiltersFactory ==
    /\ fc_pc = "settings" /\ fc_kind = "filters"
    /\ IF filters_factory_raises(settings)
       THEN fc_pc' = "raised" /\ UNCHANGED functions
       ELSE fc_pc' = "built" /\ functions' = filters_functions(settings)
    /\ UNCHANGED <<fc_kind, settings, ran, table, log>>
    /\ UNCHANGED <<base_vars, objective_vars, demand_vars, late_vars>>

ObjectivesFactory ==
    /\ fc_pc = "settings" /\ fc_kind = "objectives"
    /\ log' = IF named_twice(objective_params(settings))
              THEN Append(log, "critical") ELSE log
    /\ IF objectives_factory_raises(settings)
       THEN fc_pc' = "raised" /\ UNCHANGED functions
       ELSE fc_pc' = "built" /\ functions' = objectives_functions(settings)
    /\ UNCHANGED <<fc_kind, settings, ran, table>>
    /\ UNCHANGED <<base_vars, objective_vars, demand_vars, late_vars>>

\* The function the factory returned is called.
CallPipeline ==
    /\ fc_pc = "built"
    /\ fc_pc' = "running"
    /\ UNCHANGED <<fc_kind, settings, functions, ran, table, log>>
    /\ UNCHANGED <<base_vars, objective_vars, demand_vars, late_vars>>

\* for function in functions: result = function(agent, result, ...)
RunFilter ==
    /\ fc_pc = "running" /\ fc_kind = "filters"
    /\ Len(ran) < Len(functions)
    /\ ran' = Append(ran, functions[Len(ran) + 1])
    /\ UNCHANGED <<fc_pc, fc_kind, settings, functions, table, log>>
    /\ UNCHANGED <<base_vars, objective_vars, demand_vars, late_vars>>

\* for name, objective in functions: result[name] = objective(...)
RunObjective ==
    /\ fc_pc = "running" /\ fc_kind = "objectives"
    /\ Len(ran) < Len(functions)
    /\ LET fn == functions[Len(ran) + 1]
       IN  /\ ran' = Append(ran, fn)
           /\ table' = set_variable(table, fn.name, objective_value(fn))
    /\ UNCHANGED <<fc_pc, fc_kind, settings, functions, log>>
    /\ UNCHANGED <<base_vars, objective_vars, demand_vars, late_vars>>

ReturnPipeline ==
    /\ fc_pc = "running"
    /\ Len(ran) = Len(functions)
    /\ fc_pc' = "done"
    /\ UNCHANGED <<fc_kind, settings, functions, ran, table, log>>
    /\ UNCHANGED <<base_vars, objective_vars, demand_vars, late_vars>>

FactoryInit ==
    /\ fc_pc = "settings"
    /\ fc_kind \in {"filters", "objectives"}
    /\ settings \in IF fc_kind = "filters" THEN Settings(FilterSettingNames)
                     ELSE Settings(ObjectiveSettingNames)
    /\ functions = <<>>
    /\ ran = <<>>
    /\ table = <<>>
    /\ log = <<>>

FactoryIdle ==
    /\ fc_pc = "idle" /\ fc_kind = "none" /\ settings = <<>> /\ functions = <<>>
    /\ ran = <<>> /\ table = <<>> /\ log = <<>>

FactoryNext ==
    \/ FiltersFactory
    \/ ObjectivesFactory
    \/ CallPipeline
    \/ RunFilter
    \/ RunObjective
    \/ ReturnPipeline

(***************************************************************************)
(* muse/objectives.py: the register_objective wrapper                      *)
(***************************************************************************)
Array(dims, coords, dtype, name) ==
    [dims |-> dims, coords |-> coords, dtype |-> dtype, name |-> name]
NoArray == Array({}, {}, "none", "")

\* issubdtype(dtype, number) or issubdtype(dtype, bool_)
Dtypes == {"float64", "int64", "bool", "object", "datetime64"}
is_number_or_bool(dtype) == dtype \in {"float64", "int64", "bool"}

\* The wrapper's checks on the result, in the order of the code.
decorated_raises_dims_only(res) ==
    \/ ~(res.dims \subseteq {"replacement", "asset"})
    \/ "technology" \in res.dims
decorated_raises(res) ==
    \/ ~(res.dims \subseteq {"replacement", "asset"})
    \/ "technology" \in res.dims
    \/ "technology" \in res.coords

\* function.__name__ of the objective registered under a name
function_name(obj) ==
    CASE obj = "capacity" -> "capacity_to_service_demand"
      [] obj = "emissions" -> "emission_cost"
      [] obj = "LCOE" -> "lifetime_levelized_cost_of_energy"
      [] obj = "NPV" -> "net_present_value"
      [] obj = "NPC" -> "net_present_cost"
      [] obj = "EAC" -> "equivalent_annual_cost"
      [] OTHER -> obj

\* The part of `decorated` that follows the call of the wrapped function.
Decorated ==
    /\ ob_pc = "evaluated"
    /\ ob_log' = IF is_number_or_bool(ob_result.dtype) THEN ob_log
                 ELSE Append(ob_log, "warning")
    /\ IF decorated_raises(ob_result)
       THEN ob_pc' = "raised" /\ UNCHANGED ob_result
       ELSE /\ ob_pc' = "returned"
            /\ ob_result' = [ob_result EXCEPT !.name = function_name(objective)]
    /\ UNCHANGED <<objective, inputs>>
    /\ UNCHANGED <<base_vars, factory_vars, demand_vars, late_vars>>

\* Any array a wrapped function may hand back.
ResultDims == {"asset", "replacement", "technology", "timeslice"}
ResultCoords == {"technology", "installed"}
WrappedObjectives == {"comfort", "LCOE"}

WrapperInit ==
    /\ ob_pc = "evaluated"
    /\ objective \in WrappedObjectives
    /\ inputs = <<>>
    /\ \E dims \in SUBSET ResultDims, extra \in SUBSET ResultCoords,
          dtype \in Dtypes, name \in {"", "technologies"} :
          ob_result = Array(dims, dims \cup extra, dtype, name)
    /\ ob_log = <<>>

ObjectiveIdle ==
    /\ ob_pc = "idle" /\ objective = "none" /\ inputs = <<>>
    /\ ob_result = NoArray /\ ob_log = <<>>

WrapperNext == Decorated

(***************************************************************************)
(* muse/objectives.py: the registered objectives, as computations on the   *)
(* dimensions and coordinates of their arguments                           *)
(***************************************************************************)
Numeric(dims, coords) == Array(dims, coords, "float64", "")

\* a * b, a / b, a ** b: the dimensions and coordinates of both operands
Times(a, b) == Numeric(a.dims \cup b.dims, a.coords \cup b.coords)
\* a.sum(ds), a.max(ds)
Reduced(a, ds) == Numeric(a.dims \ ds, a.coords \ ds)
\* a.sel(technology=search_space.replacement): the technology dimension is
\* replaced by the dimension of the indexer, and the technology labels stay
\* as a coordinate along it
SelectedByReplacement(a) ==
    Numeric((a.dims \ {"technology"}) \cup {"replacement"},
            a.coords \cup {"replacement"})
\* a.drop_vars(name)
drop_vars(a, name) == [a EXCEPT !.coords = a.coords \ {name}]
\* a.rename({old: new}) raises when the array has nothing named old
rename_raises(a, old) == old \notin a.dims \cup a.coords
rename(a, old, new) ==
    Array((a.dims \ {old}) \cup (IF old \in a.dims THEN {new} ELSE {}),
          (a.coords \ {old}) \cup (IF old \in a.coords THEN {new} ELSE {}),
          a.dtype, a.name)
\* agent.filter_input(a, year=...): the year dimension, if any, is selected away
at_year(a) == Numeric(a.dims \ {"year"}, a.coords \ {"year"})

YearDim(inp) == IF inp.year_dim THEN {"year"} ELSE {}
\* a variable of the technologies dataset, with its extra dimensions
technodata(inp, extra) ==
    Numeric({"technology"} \cup extra \cup YearDim(inp),
            {"technology"} \cup extra \cup YearDim(inp))
the_search_space(inp) ==
    Array({"asset", "replacement"},
          {"asset", "replacement"}
              \cup (IF inp.space_hours THEN {"represent_hours"} ELSE {}),
          "bool", "search_space")
\* demand.sel(asset=search_space.asset)
reduced_demand == Numeric({"asset", "commodity", "timeslice"},
                          {"asset", "commodity", "timeslice"})
prices_at_year == Numeric({"commodity", "timeslice"}, {"commodity", "timeslice"})
prices_over_years ==
    Numeric({"commodity", "timeslice", "year"}, {"commodity", "timeslice", "year"})
Scalar == Numeric({}, {})

\* filter_input(..., technology=search_space.replacement, year=agent.year)
\* followed by drop_vars("technology")
replacement_data(inp, extra) ==
    drop_vars(SelectedByReplacement(at_year(technodata(inp, extra))), "technology")

comfort(inp) ==
    drop_vars(SelectedByReplacement(technodata(inp, {})), "technology")

efficiency(inp) == replacement_data(inp, {})

capacity_to_service_demand(inp) ==
    LET commodity_output == replacement_data(inp, {"commodity"})
        max_demand == Reduced(Times(reduced_demand, commodity_output),
                              {"commodity", "timeslice"})
    IN  Times(Times(max_demand, replacement_data(inp, {})), Scalar)

fixed_costs(inp) ==
    Times(replacement_data(inp, {}),
          Times(capacity_to_service_demand(inp), replacement_data(inp, {})))

capital_costs(inp) ==
    Times(replacement_data(inp, {}),
          Times(replacement_data(inp, {}), replacement_data(inp, {})))

emission_cost(inp) ==
    LET enduse_demand == Reduced(reduced_demand, {"commodity"})
        allemissions == replacement_data(inp, {"commodity"})
    IN  Reduced(Times(enduse_demand, Reduced(Times(allemissions, prices_at_year),
                                     {"commodity"})),
                {"timeslice"})

\* `hours` is bound by the first two branches only: the third reads it
\* before any assignment
capacity_in_use_raises(inp) == ~inp.market_hours /\ ~inp.space_hours
capacity_in_use(inp) ==
    LET hours == Numeric({"timeslice"}, {"timeslice"})
        ufac == replacement_data(inp, {})
    IN  Times(Times(Reduced(Times(Reduced(reduced_demand, {"commodity"}), hours),
                            {"timeslice"}),
                    Scalar),
              ufac)

\* muse.quantities.consumption: per production entry and commodity
quantities_consumption(inp) ==
    LET production == rename(Times(reduced_demand, the_search_space(inp)),
                             "replacement", "technology")
    IN  Numeric(production.dims \cup {"commodity"},
                (production.coords \ {"represent_hours"}) \cup {"commodity"})

consumption(inp) ==
    rename(Reduced(quantities_consumption(inp), {"commodity", "timeslice"}),
           "technology", "replacement")

fuel_consumption_cost(inp) ==
    rename(Reduced(Times(quantities_consumption(inp), prices_at_year),
                   {"commodity", "timeslice"}),
           "technology", "replacement")

\* techs is a Dataset: the second assertion fails whenever assertions are
\* executed; without them the result of the lifetime LCOE, computed over the
\* technology dimension of techs, has nothing named replacement to rename
quantities_lifetime_lcoe(inp) ==
    Reduced(Times(at_year(technodata(inp, {"commodity"})), prices_at_year),
            {"commodity", "timeslice"})
lifetime_levelized_cost_of_energy_raises(inp) ==
    \/ inp.assertions
    \/ rename_raises(quantities_lifetime_lcoe(inp), "replacement")
lifetime_levelized_cost_of_energy(inp) ==
    rename(quantities_lifetime_lcoe(inp), "replacement", "technology")

net_present_value(inp) ==
    LET tech == replacement_data(inp, {})
        fixed_outputs == replacement_data(inp, {"commodity"})
        years == Numeric({"year"}, {"year"})
        capacity == capacity_to_service_demand(inp)
        rates == Times(years, tech)
        production == Times(Times(capacity, fixed_outputs), tech)
        sold == Reduced(Times(Times(production, prices_over_years), rates),
                        {"commodity", "year", "timeslice"})
        installed_capacity_costs == Times(tech, Times(capacity, tech))
        fuel_costs == Reduced(Times(fuel_consumption_cost(inp), rates), {"year"})
        variable_costs == Reduced(Times(tech, Times(production, tech)), {"commodity"})
        fixed_and_variable_costs ==
            Reduced(Times(Times(installed_capacity_costs, variable_costs), rates),
                    {"year"})
    IN  Times(Times(Times(sold, installed_capacity_costs), fuel_costs),
              fixed_and_variable_costs)

net_present_cost(inp) == net_present_value(inp)

capital_recovery_factor(inp) ==
    Times(replacement_data(inp, {}), replacement_data(inp, {}))

equivalent_annual_cost(inp) ==
    Times(net_present_cost(inp), capital_recovery_factor(inp))

objective_raises(obj, inp) ==
    CASE obj = "capacity_in_use" -> capacity_in_use_raises(inp)
      [] obj = "LCOE" -> lifetime_levelized_cost_of_energy_raises(inp)
      [] OTHER -> FALSE

objective_result(obj, inp) ==
    CASE obj = "comfort" -> comfort(inp)
      [] obj = "efficiency" -> efficiency(inp)
      [] obj = "capacity" -> capacity_to_service_demand(inp)
      [] obj = "fixed_costs" -> fixed_costs(inp)
      [] obj = "capital_costs" -> capital_costs(inp)
      [] obj = "emissions" -> emission_cost(inp)
      [] obj = "capacity_in_use" -> capacity_in_use(inp)
      [] obj = "consumption" -> consumption(inp)
      [] obj = "fuel_consumption_cost" -> fuel_consumption_cost(inp)
      [] obj = "LCOE" -> lifetime_levelized_cost_of_energy(inp)
      [] obj = "NPV" -> net_present_value(inp)
      [] obj = "NPC" -> net_present_cost(inp)
      [] obj = "EAC" -> equivalent_annual_cost(inp)

\* decorated: result = function(agent, reduced_demand, search_space, ...)
CallObjective ==
    /\ ob_pc = "call"
    /\ IF objective_raises(objective, inputs)
       THEN ob_pc' = "raised" /\ UNCHANGED ob_result
       ELSE ob_pc' = "evaluated" /\ ob_result' = objective_result(objective, inputs)
    /\ UNCHANGED <<objective, inputs, ob_log>>
    /\ UNCHANGED <<base_vars, factory_vars, demand_vars, late_vars>>

\* Well-formed arguments: represent_hours may come with the market, with the
\* search space, or with neither; the technologies may or may not carry a
\* year dimension; assertions are executed unless python runs with -O.
ObjectiveInputs ==
    [market_hours : BOOLEAN, space_hours : BOOLEAN, year_dim : BOOLEAN,
     assertions : BOOLEAN]

ObjectivesInit ==
    /\ ob_pc = "call"
    /\ objective \in OBJECTIVES
    /\ inputs \in ObjectiveInputs
    /\ ob_result = NoArray
    /\ ob_log = <<>>

ObjectivesNext == CallObjective \/ Decorated

(***************************************************************************)
(* muse/demand_share.py: unmet_demand, new_consumption and                 *)
(* new_and_retro_demands, in one (region, commodity, timeslice) cell       *)
(***************************************************************************)
Max(a, b) == IF a > b THEN a ELSE b

\* The production methods: the registered default, and a callable given by
\* the caller that yields less than the maximum.
ProductionMethods == {"maximum_production", "half_production"}
DefaultProduction == "maximum_production"

\* prod_method(market, capacity, technologies), summed over the assets
production_of(method, capa) ==
    IF method = "maximum_production" THEN capa ELSE capa \div 2

\* (market.consumption - prod).clip(min=0); production defaults to
\* "maximum_production"
unmet_demand(consumed, capa, method) ==
    Max(consumed - production_of(method, capa), 0)

\* delta and missing of new_consumption: the production argument is not
\* handed on to unmet_demand
growth_unclipped(mkt) == mkt.forecast - mkt.current
growth(mkt) == Max(mkt.forecast - mkt.current, 0)
new_consumption_missing(mkt, capa, method) ==
    unmet_demand(mkt.forecast, capa.current, DefaultProduction)

\* delta.where(delta < missing, missing)
new_consumption(mkt, capa, method) ==
    LET delta == growth(mkt)
        amiss == new_consumption_missing(mkt, capa, method)
    IN  IF delta < amiss THEN delta ELSE amiss

\* (consumption - new_demand - service).clip(min=0)
retrofit_demand_unclipped(consumed, new, served) == consumed - new - served
retrofit_demand(consumed, new, served) == Max(consumed - new - served, 0)

\* new_consumption called on its own
NewConsumption ==
    /\ dm_pc = "call"
    /\ dm_pc' = "new_consumption"
    /\ missing' = new_consumption_missing(dm_market, dm_capacity, production_method)
    /\ new_demand' = new_consumption(dm_market, dm_capacity, production_method)
    /\ UNCHANGED <<dm_market, dm_capacity, production_method, service, retro_demand>>
    /\ UNCHANGED <<base_vars, factory_vars, objective_vars, late_vars>>

NewAndRetroDemands ==
    /\ dm_pc = "call"
    /\ dm_pc' = "new_and_retro_demands"
    /\ missing' = new_consumption_missing(dm_market, dm_capacity, production_method)
    /\ new_demand' = new_consumption(dm_market, dm_capacity, production_method)
    /\ service' = production_of(production_method, dm_capacity.forecast)
    /\ retro_demand' =
          retrofit_demand(dm_market.forecast,
                          new_consumption(dm_market, dm_capacity, production_method),
                          production_of(production_method, dm_capacity.forecast))
    /\ UNCHANGED <<dm_market, dm_capacity, production_method>>
    /\ UNCHANGED <<base_vars, factory_vars, objective_vars, late_vars>>

\* Consumption of the cell in the current and in the forecast year, and the
\* capacity serving it in both years (assets are only decommissioned in
\* between).
DemandInit ==
    /\ dm_pc = "call"
    /\ dm_market \in [current : 0..MaxConsumption, forecast : 0..MaxConsumption]
    /\ dm_capacity \in {c \in [current : 0..MaxAssetCapacity,
                               forecast : 0..MaxAssetCapacity] :
                           c.forecast <= c.current}
    /\ production_method \in ProductionMethods
    /\ missing = 0 /\ new_demand = 0 /\ service = 0 /\ retro_demand = 0

DemandIdle ==
    /\ dm_pc = "idle" /\ dm_market = <<>> /\ dm_capacity = <<>>
    /\ production_method = "none"
    /\ missing = 0 /\ new_demand = 0 /\ service = 0 /\ retro_demand = 0

DemandNext == NewConsumption \/ NewAndRetroDemands

(***************************************************************************)
(* muse/sectors/sector.py: Sector.next and Sector.investment.  The         *)
(* interaction function, the demand share function, agent.next and the     *)
(* output sink are collaborators; shares are sums in units of 1e-12.       *)
(***************************************************************************)
NoShare == [size |-> 0, sum |-> 0]
\* The shares a demand share function hands to an agent: an empty array, no
\* demand, a demand of exactly 1e-12, a larger demand.
ShareArrays ==
    {NoShare, [size |-> 1, sum |-> 0], [size |-> 1, sum |-> Tol],
     [size |-> 1, sum |-> Unit]}

\* A step of Sector.next; the agent is 0 for a step of the sector itself.
Step(name, uuid) == [step |-> name, agent |-> uuid]

\* self.capacity: the capacity of the assets of every agent, aggregated
sector_capacity(agents) ==
    NSum([k \in DOMAIN agents |-> agents[k].capacity], DOMAIN agents)

\* Mutant: the agents are taken last first.
nth_agent_reversed(k, n) == n + 1 - k
\* for agent in self.agents: the agent of the k-th turn of the loop
nth_agent(k, n) == k

\* Mutant: the market of the agent is rebuilt from the current capacity.
passed_market_refreshed(snapshot, agents) == sector_capacity(agents)
\* the agent_market argument of agent.next
passed_market(snapshot, agents) == snapshot

\* Mutant: only an empty share is logged.
demand_share_log_empty_only(share) ==
    IF share.size = 0 THEN "Demand share is empty" ELSE ""
\* the message logged before agent.next, "" for none
demand_share_log(share) ==
    IF share.size = 0 THEN "Demand share is empty"
    ELSE IF share.sum < Tol THEN "No demand"
    ELSE ""

\* agent.next: the capacity the agent commits to its own assets, given the
\* capacity its decision selects
committed_capacity(share, selected) ==
    IF share.size = 0 \/ share.sum < Tol THEN 0 ELSE selected

sector_data == <<sc_agents, sc_shares, sc_agent_market, sc_index, sc_trace,
                 sc_passed, sc_log, sc_result>>

\* An exception leaves Sector.next.
SectorRaises(error) ==
    /\ sc_pc' = error
    /\ UNCHANGED sector_data

\* self.interactions(self.agents): the function may move assets from one
\* agent to another (the default moves nothing)
Interactions ==
    /\ sc_pc = "next"
    /\ \E from \in DOMAIN sc_agents : \E to \in DOMAIN sc_agents :
          sc_agents' =
              IF from = to THEN sc_agents
              ELSE [sc_agents EXCEPT
                       ![from].capacity = 0,
                       ![to].capacity = @ + sc_agents[from].capacity]
    /\ sc_trace' = Append(sc_trace, Step("interactions", 0))
    /\ sc_pc' = "interacted"
    /\ UNCHANGED <<sc_shares, sc_agent_market, sc_index, sc_passed, sc_log,
                   sc_result>>
    /\ UNCHANGED not_sector_vars

\* investment: shares = self.demand_share(self.agents, ...), then the agent
\* market with the capacity aggregated at that point
DemandShare ==
    /\ sc_pc = "interacted"
    /\ \E uuids \in SUBSET DOMAIN sc_agents :
          \E returned \in [uuids -> ShareArrays] : sc_shares' = returned
    /\ sc_agent_market' = sector_capacity(sc_agents)
    /\ sc_index' = 1
    /\ sc_trace' = Append(sc_trace, Step("demand_share", 0))
    /\ sc_pc' = "investment"
    /\ UNCHANGED <<sc_agents, sc_passed, sc_log, sc_result>>
    /\ UNCHANGED not_sector_vars

\* One turn of the loop over self.agents.
AgentNext ==
    /\ sc_pc = "investment"
    /\ sc_index <= Len(sc_agents)
    /\ LET uuid == nth_agent(sc_index, Len(sc_agents))
       IN  IF ~sc_agents[uuid].in_year
           THEN SectorRaises("AssertionError")
           ELSE IF uuid \notin DOMAIN sc_shares
           THEN SectorRaises("KeyError")
           ELSE \E selected \in 1..MaxCommitted :
                  LET share == sc_shares[uuid]
                      message == demand_share_log(share)
                      committed == committed_capacity(share, selected)
                  IN  /\ sc_log' = IF message = "" THEN sc_log
                                   ELSE Append(sc_log, Step(message, uuid))
                      /\ sc_passed' =
                            Append(sc_passed,
                                   [agent |-> uuid, share |-> share,
                                    capacity |-> passed_market(sc_agent_market,
                                                               sc_agents),
                                    committed |-> committed])
                      /\ sc_agents' =
                            [sc_agents EXCEPT ![uuid].capacity = @ + committed]
                      /\ sc_trace' = Append(sc_trace, Step("agent.next", uuid))
                      /\ sc_index' = sc_index + 1
                      /\ UNCHANGED <<sc_pc, sc_shares, sc_agent_market, sc_result>>
    /\ UNCHANGED not_sector_vars

\* result = self.market_variables(market, technologies): the supply of
\* self.capacity as it is after the loop
MarketVariables ==
    /\ sc_pc = "investment"
    /\ sc_index > Len(sc_agents)
    /\ sc_result' = sector_capacity(sc_agents)
    /\ sc_trace' = Append(sc_trace, Step("market_variables", 0))
    /\ sc_pc' = "market_variables"
    /\ UNCHANGED <<sc_agents, sc_shares, sc_agent_market, sc_index, sc_passed,
                   sc_log>>
    /\ UNCHANGED not_sector_vars

\* self.outputs(self.capacity, result, technologies, sector=self.name)
Outputs ==
    /\ sc_pc = "market_variables"
    /\ sc_trace' = Append(sc_trace, Step("outputs", 0))
    /\ sc_pc' = "returned"
    /\ UNCHANGED <<sc_agents, sc_shares, sc_agent_market, sc_index, sc_passed,
                   sc_log, sc_result>>
    /\ UNCHANGED not_sector_vars

\* The agents of a sector, each with the capacity it owns and whether its
\* year is the first year of the market.
SectorAgents ==
    UNION {[1..n -> [capacity : {1}, in_year : BOOLEAN]] : n \in 1..MaxAgents}

SectorInit ==
    /\ sc_pc = "next"
    /\ sc_agents \in SectorAgents
    /\ sc_before = sc_agents
    /\ sc_shares = <<>>
    /\ sc_agent_market = 0
    /\ sc_index = 0
    /\ sc_trace = <<>>
    /\ sc_passed = <<>>
    /\ sc_log = <<>>
    /\ sc_result = 0

SectorIdle ==
    /\ sc_pc = "idle" /\ sc_agents = <<>> /\ sc_before = <<>> /\ sc_shares = <<>>
    /\ sc_agent_market = 0 /\ sc_index = 0 /\ sc_trace = <<>> /\ sc_passed = <<>>
    /\ sc_log = <<>> /\ sc_result = 0

SectorNext == Interactions \/ DemandShare \/ AgentNext \/ MarketVariables \/ Outputs

(***************************************************************************)
(* muse/outputs/cache.py: OutputCache.  A published value is identified by *)
(* the number of its publication; a sink is called with the list of values *)
(* cached for its quantity.                                                *)
(***************************************************************************)
\* The registered output quantities, and a name that is not registered.
OUTPUT_QUANTITIES == {"capacity", "production", "lcoe"}
CacheNames == {"capacity", "production", "prices"}

\* missing = [p["quantity"] for p in parameters if not in output_quantities]
missing_quantities(parameters) ==
    {parameters[i] : i \in {k \in DOMAIN parameters :
                               parameters[k] \notin OUTPUT_QUANTITIES}}

\* self.to_save = {p["quantity"]: [] for p in parameters if registered}
empty_caches(parameters) ==
    [q \in {parameters[i] : i \in DOMAIN parameters} \cap OUTPUT_QUANTITIES |-> <<>>]

\* Mutant: a quantity that was not selected gets a cache of its own.
cache_value_any(store, quantity, value) ==
    [q \in DOMAIN store \cup {quantity} |->
        IF q = quantity
        THEN (IF q \in DOMAIN store THEN Append(store[q], value) ELSE <<value>>)
        ELSE store[q]]
\* if quantity not in self.to_save: continue; else append value.copy()
cache_value(store, quantity, value) ==
    IF quantity \notin DOMAIN store THEN store
    ELSE [store EXCEPT ![quantity] = Append(@, value)]

RECURSIVE cache_items(_, _, _)
\* for quantity, value in data.items(): the loop of OutputCache.cache
cache_items(store, data, left) ==
    IF left = {} THEN store
    ELSE LET quantity == CHOOSE q \in left : TRUE
         IN  cache_items(cache_value(store, quantity, data[quantity]), data,
                         left \ {quantity})

\* Mutant: the lists are kept after the sinks were called.
flushed_never(store) == store
\* self.to_save = {q: [] for q in self.to_save}
flushed(store) == [q \in DOMAIN store |-> <<>>]

\* the sinks consolidate_cache calls: self.factory[quantity](cache, year)
\* for every quantity whose cache is not empty
sink_calls(store, sunk) ==
    [q \in DOMAIN sunk |->
        IF q \in DOMAIN store /\ Len(store[q]) # 0
        THEN Append(sunk[q], store[q]) ELSE sunk[q]]

cache_ghosts == <<ch_published, ch_prev, ch_data>>

\* OutputCache(*parameters)
Construct ==
    /\ ch_pc = "new"
    /\ IF missing_quantities(ch_parameters) # {}
       THEN ch_pc' = "ValueError" /\ UNCHANGED to_save
       ELSE ch_pc' = "subscribed" /\ to_save' = empty_caches(ch_parameters)
    /\ UNCHANGED <<ch_parameters, ch_sunk, ch_count, ch_consolidated, ch_last>>
    /\ UNCHANGED cache_ghosts
    /\ UNCHANGED not_cache_vars

\* pub.sendMessage(topic, data=data) reaches the subscribed self.cache(data)
Cache ==
    /\ ch_pc = "subscribed"
    /\ ch_count < MaxPublished
    /\ \E names \in SUBSET CacheNames \ {{}} :
          LET data == [q \in names |-> ch_count + 1]
          IN  /\ to_save' = cache_items(to_save, data, names)
              /\ ch_data' = data
              /\ ch_published' =
                    [q \in DOMAIN ch_published |->
                        IF q \in names THEN Append(ch_published[q], ch_count + 1)
                        ELSE ch_published[q]]
    /\ ch_prev' = to_save
    /\ ch_count' = ch_count + 1
    /\ ch_last' = "cache"
    /\ UNCHANGED <<ch_pc, ch_parameters, ch_sunk, ch_consolidated>>
    /\ UNCHANGED not_cache_vars

\* consolidate_cache(year)
ConsolidateCache ==
    /\ ch_pc = "subscribed"
    /\ ch_consolidated < MaxConsolidated
    /\ ch_sunk' = sink_calls(to_save, ch_sunk)
    /\ to_save' = flushed(to_save)
    /\ ch_prev' = to_save
    /\ ch_consolidated' = ch_consolidated + 1
    /\ ch_last' = "consolidate_cache"
    /\ UNCHANGED <<ch_pc, ch_parameters, ch_count, ch_published, ch_data>>
    /\ UNCHANGED not_cache_vars

CacheInit ==
    /\ ch_pc = "new"
    /\ ch_parameters \in SeqsUpTo(CacheNames, MaxParameters)
    /\ to_save = <<>>
    /\ ch_sunk = [q \in CacheNames |-> <<>>]
    /\ ch_published = [q \in CacheNames |-> <<>>]
    /\ ch_prev = <<>>
    /\ ch_data = <<>>
    /\ ch_count = 0
    /\ ch_consolidated = 0
    /\ ch_last = "none"

CacheIdle ==
    /\ ch_pc = "idle" /\ ch_parameters = <<>> /\ to_save = <<>> /\ ch_sunk = <<>>
    /\ ch_published = <<>> /\ ch_prev = <<>> /\ ch_data = <<>> /\ ch_count = 0
    /\ ch_consolidated = 0 /\ ch_last = "none"

CacheNext == Construct \/ Cache \/ ConsolidateCache

(***************************************************************************)
(* muse/outputs/cache.py: match_quantities.  A Text is the sequence of its *)
(* characters, as python sees it; an array is identified by a number.      *)
(***************************************************************************)
Texts == {<<"a">>, <<"b">>, <<"a", "b">>}
Arrays == 1..MaxNames

\* The quantity argument: a Text (value holds it alone), a list of Texts, or
\* None.
Quantity(kind, value) == [kind |-> kind, value |-> value]
QuantityArguments ==
    {Quantity("Text", <<t>>) : t \in Texts}
    \cup {Quantity("list", l) : l \in SeqsUpTo(Texts, MaxNames)}
    \cup {Quantity("None", <<>>)}
text(x) == x.value[1]

\* data[q] of a Dataset: the variable of that name
variable(q) == 10 + Len(q) + (IF Head(q) = "a" THEN 0 ELSE 2)

\* The data argument: a DataArray, a Dataset with any variables, a list of
\* DataArrays, or something else (None).
Data(kind, arrays, variables) ==
    [kind |-> kind, arrays |-> arrays, variables |-> variables]
DataArguments ==
    {Data("DataArray", <<1>>, {})}
    \cup {Data("Dataset", <<>>, vs) : vs \in SUBSET Texts}
    \cup {Data("list", l, {}) : l \in SeqsUpTo(Arrays, MaxNames)}
    \cup {Data("None", <<>>, {})}

\* isinstance(x, Text) and isinstance(x, Sequence): a Text is a Sequence
is_text(x) == x.kind = "Text"
is_sequence(x) == x.kind \in {"Text", "list"}

\* iterating over a Sequence: a Text yields its characters, each a Text
items(x) ==
    IF x.kind = "Text" THEN [i \in DOMAIN text(x) |-> <<text(x)[i]>>] ELSE x.value

\* {q: v for q, v in zip(quantity, data)}: the last value of a key stays
zipped(keys, values) ==
    [q \in {keys[i] : i \in DOMAIN keys} |->
        LET last == CHOOSE i \in DOMAIN keys :
                        /\ keys[i] = q
                        /\ \A j \in DOMAIN keys : keys[j] = q => j <= i
        IN  values[last]]

MatchOutcome(error, result) == [error |-> error, result |-> result]

match_quantities(quantity, data) ==
    IF is_text(quantity) /\ data.kind = "DataArray"
    THEN MatchOutcome("none", [q \in {text(quantity)} |-> data.arrays[1]])
    ELSE IF is_text(quantity) /\ data.kind = "Dataset"
    THEN IF text(quantity) \in data.variables
         THEN MatchOutcome("none", [q \in {text(quantity)} |-> variable(q)])
         ELSE MatchOutcome("KeyError", <<>>)
    ELSE IF is_sequence(quantity) /\ data.kind = "Dataset"
    THEN IF \A i \in DOMAIN items(quantity) : items(quantity)[i] \in data.variables
         THEN MatchOutcome("none",
                  [q \in {items(quantity)[i] : i \in DOMAIN items(quantity)} |->
                      variable(q)])
         ELSE MatchOutcome("KeyError", <<>>)
    ELSE IF is_sequence(quantity) /\ data.kind = "list"
    THEN IF Len(items(quantity)) # Len(data.arrays)
         THEN MatchOutcome("ValueError", <<>>)
         ELSE MatchOutcome("none", zipped(items(quantity), data.arrays))
    ELSE MatchOutcome("TypeError", <<>>)

MatchQuantities ==
    /\ mq_pc = "call"
    /\ mq_pc' = "done"
    /\ mq_result' = match_quantities(mq_quantity, mq_data)
    /\ UNCHANGED <<mq_quantity, mq_data>>
    /\ UNCHANGED not_match_vars

MatchInit ==
    /\ mq_pc = "call"
    /\ mq_quantity \in QuantityArguments
    /\ mq_data \in DataArguments
    /\ mq_result = MatchOutcome("none", <<>>)

MatchIdle ==
    /\ mq_pc = "idle" /\ mq_quantity = <<>> /\ mq_data = <<>> /\ mq_result = <<>>

MatchNext == MatchQuantities

(***************************************************************************)
(* muse/objectives.py: the discount factors of net_present_value           *)
(***************************************************************************)
RECURSIVE Power(_, _)
Power(base, exponent) ==
    IF exponent = 0 THEN 1 ELSE base * Power(base, exponent - 1)

\* mask / (1 + interest_rate) ** years, the mask a boolean
discount_factor(years, interest_rate, mask) ==
    FDiv(Num(IF mask THEN 1 ELSE 0), Num(Power(1 + interest_rate, years)))

\* nyears.values.max()
longest_life(nyears) ==
    CHOOSE n \in {nyears[t] : t \in DOMAIN nyears} :
        \A t \in DOMAIN nyears : nyears[t] <= n

\* iyears = range(agent.year, agent.year + nyears.values.max())
iyears(year, nyears) == year..(year + longest_life(nyears) - 1)

\* rates = discount_factor(years - agent.year + 1, interest_rate,
\*                         years <= agent.year + nyears)
npv_rates(year, nyears, interest_rate) ==
    [t \in DOMAIN nyears |->
        [y \in iyears(year, nyears) |->
            discount_factor(y - year + 1, interest_rate[t],
                            y <= year + nyears[t])]]

\* net_present_value up to the rates
DiscountRates ==
    /\ np_pc = "call"
    /\ np_pc' = "rates"
    /\ np_rates' = npv_rates(np_agent.year, np_tech.technical_life,
                          np_tech.interest_rate)
    /\ UNCHANGED <<np_agent, np_tech>>
    /\ UNCHANGED not_discount_vars

\* The candidates of the search space with their technical life in years
\* and their interest rate (0 or 1), and the year of the agent.
DiscountInit ==
    /\ np_pc = "call"
    /\ np_agent \in [year : 0..1]
    /\ np_tech \in [technical_life : [Technologies -> 1..MaxLife],
                    interest_rate : [Technologies -> 0..1]]
    /\ np_rates = <<>>

DiscountIdle == np_pc = "idle" /\ np_agent = <<>> /\ np_tech = <<>> /\ np_rates = <<>>

DiscountNext == DiscountRates

(***************************************************************************)
(* muse/demand_share.py: the loop over regions of new_and_retro.  Of the   *)
(* result only the keys are kept: the uuids a share was computed for.      *)
(***************************************************************************)
Regions == {"r1", "r2"}
AgentNames == {"A", "B"}

\* {agent.uuid: ... for agent in agents if agent.category == "retrofit" and
\*  agent.region == region}; the uuid of an agent is its place in the list
retro_uuids(agents, region) ==
    {u \in DOMAIN agents :
        agents[u].category = "retrofit" /\ agents[u].region = region}

new_uuids(agents, region) ==
    {u \in DOMAIN agents :
        agents[u].category # "retrofit" /\ agents[u].region = region}

\* the keys of name_to_uuid: (agent.name, agent.region) of the retrofit agents
retro_names(agents, region) ==
    {agents[u].name : u \in retro_uuids(agents, region)}

\* One turn of 'for region in demands.region.values': the error it raises,
\* "none" when it adds its shares to the results.
region_error(agents, region, assertions) ==
    IF retro_uuids(agents, region) = {}
    THEN "AttributeError"       \* _inner_split of no retrofit agent
    ELSE IF assertions /\ Cardinality(retro_names(agents, region))
                            # Cardinality(retro_uuids(agents, region))
    THEN "AssertionError"
    ELSE IF \E u \in new_uuids(agents, region) :
                agents[u].name \notin retro_names(agents, region)
    THEN "KeyError"             \* name_to_uuid[(agent.name, agent.region)]
    ELSE IF new_uuids(agents, region) = {}
    THEN "AttributeError"       \* _inner_split of no new agent
    ELSE "none"

SplitRegion ==
    /\ nr_pc = "regions"
    /\ nr_index <= Len(nr_regions)
    /\ LET region == nr_regions[nr_index]
           error == region_error(nr_agents, region, nr_assertions)
       IN  IF retro_uuids(nr_agents, region) = {}
           THEN nr_pc' = error /\ UNCHANGED <<nr_results, nr_index>>
           ELSE IF error # "none"
           THEN \* results.update(retro_demands) came first
                /\ nr_pc' = error
                /\ nr_results' = nr_results \cup retro_uuids(nr_agents, region)
                /\ UNCHANGED nr_index
           ELSE /\ nr_results' = nr_results \cup retro_uuids(nr_agents, region)
                                     \cup new_uuids(nr_agents, region)
                /\ nr_index' = nr_index + 1
                /\ UNCHANGED nr_pc
    /\ UNCHANGED <<nr_agents, nr_regions, nr_assertions>>
    /\ UNCHANGED not_regional_vars

\* return results
ReturnShares ==
    /\ nr_pc = "regions"
    /\ nr_index > Len(nr_regions)
    /\ nr_pc' = "returned"
    /\ UNCHANGED <<nr_agents, nr_regions, nr_index, nr_results, nr_assertions>>
    /\ UNCHANGED not_regional_vars

\* Up to MaxAgents agents, each in a region of the market.
RegionalInit ==
    /\ nr_pc = "regions"
    /\ nr_regions \in {<<"r1">>, <<"r1", "r2">>}
    /\ \E n \in 1..MaxAgents :
          nr_agents \in [1..n -> [name : AgentNames,
                                  region : {nr_regions[i] : i \in DOMAIN nr_regions},
                                  category : {"new", "retrofit"}]]
    /\ nr_assertions \in BOOLEAN
    /\ nr_index = 1
    /\ nr_results = {}

RegionalIdle ==
    /\ nr_pc = "idle" /\ nr_agents = <<>> /\ nr_regions = <<>> /\ nr_index = 0
    /\ nr_results = {} /\ nr_assertions = FALSE

RegionalNext == SplitRegion \/ ReturnShares

(***************************************************************************)
(* muse/demand_share.py: factory and the function it returns.  A function  *)
(* of the registry is known by the name it is registered under; keyword    *)
(* arguments are functions from a set of keyword names to values.          *)
(***************************************************************************)
DemandShareNames == {"new_and_retro", "default", "custom"}
KeywordNames == {"forecast", "production"}
Keywords == UNION {[S -> 1..MaxKeyword] : S \in SUBSET KeywordNames}

\* settings: None, a Text, or a mapping with or without a "name" entry
ShareSettings ==
    [kind : {"none"}, name : {""}, params : {<<>>}]
        \cup [kind : {"text"}, name : {""} \cup DemandShareNames, params : {<<>>}]
        \cup [kind : {"mapping", "unnamed"}, name : DemandShareNames,
              params : Keywords]

\* name = settings or "new_and_retro" / settings.get("name", "new_and_retro")
share_name(given) ==
    CASE given.kind = "none" -> "new_and_retro"
      [] given.kind = "text" ->
            IF given.name = "" THEN "new_and_retro" ELSE given.name
      [] given.kind = "mapping" -> given.name
      [] given.kind = "unnamed" -> "new_and_retro"

\* params = {k: v for k, v in settings.items() if k != "name"}
share_params(given) ==
    IF given.kind \in {"none", "text"} THEN <<>> ELSE given.params

keywords_params_last(params, kwargs) ==
    [k \in DOMAIN params \cup DOMAIN kwargs |->
        IF k \in DOMAIN params THEN params[k] ELSE kwargs[k]]

\* keywords = dict(**params); keywords.update(**kwargs)
keywords(params, kwargs) ==
    [k \in DOMAIN params \cup DOMAIN kwargs |->
        IF k \in DOMAIN kwargs THEN kwargs[k] ELSE params[k]]

\* demand_share.factory(settings): builds the closure, looks nothing up
Factory ==
    /\ fa_pc = "given"
    /\ fa_name' = share_name(fa_settings)
    /\ fa_params' = share_params(fa_settings)
    /\ fa_pc' = "built"
    /\ UNCHANGED <<fa_settings, fa_registry, fa_kwargs, fa_called>>
    /\ UNCHANGED not_share_factory_vars

\* demand_share(agents, market, technologies, **kwargs), the returned function
CallDemandShare ==
    /\ fa_pc \in {"built", "returned", "KeyError"}
    /\ \E kwargs \in Keywords :
          /\ fa_kwargs' = kwargs
          /\ IF fa_name \in fa_registry
             THEN /\ fa_called' = [function |-> fa_name,
                                   keywords |-> keywords(fa_params, kwargs)]
                  /\ fa_pc' = "returned"
             ELSE \* function = DEMAND_SHARE[name]
                  /\ fa_pc' = "KeyError"
                  /\ UNCHANGED fa_called
    /\ UNCHANGED <<fa_settings, fa_registry, fa_name, fa_params>>
    /\ UNCHANGED not_share_factory_vars

NotCalled == [function |-> "", keywords |-> <<>>]

ShareFactoryInit ==
    /\ fa_pc = "given"
    /\ fa_settings \in ShareSettings
    /\ fa_registry \in SUBSET DemandShareNames
    /\ fa_name = "" /\ fa_params = <<>> /\ fa_kwargs = <<>>
    /\ fa_called = NotCalled

ShareFactoryIdle ==
    /\ fa_pc = "idle"
    /\ fa_settings = [kind |-> "none", name |-> "", params |-> <<>>]
    /\ fa_registry = {} /\ fa_name = "" /\ fa_params = <<>> /\ fa_kwargs = <<>>
    /\ fa_called = NotCalled

ShareFactoryNext == Factory \/ CallDemandShare

(***************************************************************************)
(* Specifications: one per component, the other components staying idle.   *)
(***************************************************************************)
BaseIdle == MCAIdle /\ FilterIdle /\ SplitIdle
ExtIdle == FactoryIdle /\ ObjectiveIdle /\ DemandIdle
LateIdle ==
    /\ SectorIdle /\ CacheIdle /\ MatchIdle /\ DiscountIdle /\ RegionalIdle
    /\ ShareFactoryIdle

InitMCA == MCAInit /\ FilterIdle /\ SplitIdle /\ ExtIdle /\ LateIdle
InitScenario == ScenarioInit /\ FilterIdle /\ SplitIdle /\ ExtIdle /\ LateIdle
InitCheckEquilibrium == CheckEquilibriumInit /\ FilterIdle /\ SplitIdle /\ ExtIdle /\ LateIdle
InitFilters == FilterInit /\ MCAIdle /\ SplitIdle /\ ExtIdle /\ LateIdle
InitInitializer == InitializerInit /\ MCAIdle /\ SplitIdle /\ ExtIdle /\ LateIdle
InitSplit == SplitInit /\ MCAIdle /\ FilterIdle /\ ExtIdle /\ LateIdle
InitCompose == ComposeInit /\ MCAIdle /\ SplitIdle /\ ExtIdle /\ LateIdle
InitFactory == FactoryInit /\ BaseIdle /\ ObjectiveIdle /\ DemandIdle /\ LateIdle
InitWrapper == WrapperInit /\ BaseIdle /\ FactoryIdle /\ DemandIdle /\ LateIdle
InitObjectives == ObjectivesInit /\ BaseIdle /\ FactoryIdle /\ DemandIdle /\ LateIdle
InitDemand == DemandInit /\ BaseIdle /\ FactoryIdle /\ ObjectiveIdle /\ LateIdle
InitSector ==
    /\ SectorInit /\ BaseIdle /\ ExtIdle
    /\ CacheIdle /\ MatchIdle /\ DiscountIdle /\ RegionalIdle /\ ShareFactoryIdle
InitCache ==
    /\ CacheInit /\ BaseIdle /\ ExtIdle
    /\ SectorIdle /\ MatchIdle /\ DiscountIdle /\ RegionalIdle /\ ShareFactoryIdle
InitMatch ==
    /\ MatchInit /\ BaseIdle /\ ExtIdle
    /\ SectorIdle /\ CacheIdle /\ DiscountIdle /\ RegionalIdle /\ ShareFactoryIdle
InitDiscount ==
    /\ DiscountInit /\ BaseIdle /\ ExtIdle
    /\ SectorIdle /\ CacheIdle /\ MatchIdle /\ RegionalIdle /\ ShareFactoryIdle
InitRegional ==
    /\ RegionalInit /\ BaseIdle /\ ExtIdle
    /\ SectorIdle /\ CacheIdle /\ MatchIdle /\ DiscountIdle /\ ShareFactoryIdle
InitShareFactory ==
    /\ ShareFactoryInit /\ BaseIdle /\ ExtIdle
    /\ SectorIdle /\ CacheIdle /\ MatchIdle /\ DiscountIdle /\ RegionalIdle

SpecMCA == InitMCA /\ [][MCANext]_vars
\* The loop is synchronous and a sector's next returns: no step is postponed
\* for ever.
SpecMCAFair == InitMCA /\ [][MCANext]_vars /\ WF_vars(MCANext)
SpecScenario == InitScenario /\ [][ScenarioNext]_vars
SpecCheckEquilibrium == InitCheckEquilibrium /\ [][CheckEquilibriumNext]_vars
SpecFilters == InitFilters /\ [][FilterNext]_vars
SpecInitializer == InitInitializer /\ [][InitializerNext]_vars
SpecSplit == InitSplit /\ [][SplitNext]_vars
SpecCompose == InitCompose /\ [][ComposeNext]_vars
SpecFactory == InitFactory /\ [][FactoryNext]_vars
SpecWrapper == InitWrapper /\ [][WrapperNext]_vars
SpecObjectives == InitObjectives /\ [][ObjectivesNext]_vars
SpecDemand == InitDemand /\ [][DemandNext]_vars
SpecSector == InitSector /\ [][SectorNext]_vars
SpecCache == InitCache /\ [][CacheNext]_vars
SpecMatch == InitMatch /\ [][MatchNext]_vars
SpecDiscount == InitDiscount /\ [][DiscountNext]_vars
SpecRegional == InitRegional /\ [][RegionalNext]_vars
SpecShareFactory == InitShareFactory /\ [][ShareFactoryNext]_vars

(***************************************************************************)
(* Claims on the MCA equilibrium loop                                      *)
(***************************************************************************)
\* The market find_equilibrium produced last: the combined market of the
\* last iteration, or the initial guess when no iteration ran.
last_market == IF iteration = 0 THEN InitialMarket ELSE new_market

\* C3: find_equilibrium terminates after at most maxiter iterations whatever
\* the sectors return, and when the budget is exhausted without convergence
\* it returns (it does not raise) the last market with converged = False.
C3_Terminates ==
    /\ [](iteration <= maxiter /\ mca_pc # "raised")
    /\ <>(mca_pc = "done")
    /\ []((mca_pc = "done" /\ ~converged) =>
             (iteration = maxiter /\ market = last_market))

C3_Witness ==
    mca_pc = "done" /\ ~converged /\ iteration = maxiter /\ maxiter >= 2

C5_OncePerIteration ==
    \A s \in Sectors :
        /\ mca_pc = "sectors" =>
              call_count[s] = (IF s < next_sector THEN 1 ELSE 0)
        /\ mca_pc \in {"loop", "done"} => total_calls[s] = iteration
        /\ (mca_pc = "done" /\ maxiter >= 1) => result_sectors[s] = 1

C5_Witness ==
    mca_pc = "done" /\ iteration >= 2 /\ \A s \in Sectors : result_sectors[s] = 1

\* Summed unscaled targets of the mock sectors, in hundredths.
target_supply(c) == NSum([s \in Sectors |-> targets[s].supply[c]], Sectors) * Hundred
target_consumption(c) ==
    NSum([s \in Sectors |-> targets[s].consumption[c]], Sectors) * Hundred
\* Summed outputs of the first call of every mock sector.
first_outputs(c) ==
    NSum([s \in Sectors |-> targets[s].supply[c]], Sectors) * MockSideEffect[1]

large_targets == \E c \in Commodities : 5 * (target_supply(c) \div Hundred) > EquilibriumTol

C8_DesignatedVariable ==
    mca_pc = "checked" =>
        /\ market = prior_market => converged
        /\ (/\ equilibrium_variable = "demand"
            /\ \E c \in Commodities :
                  market.supply[c] - prior_market.supply[c] > EquilibriumTol)
              => ~converged
        /\ (equilibrium_variable = "prices" /\ market.prices = prior_market.prices)
              => converged
        /\ (/\ equilibrium_variable = "prices"
            /\ \E c \in Commodities :
                  Abs(market.prices[c] - prior_market.prices[c]) > EquilibriumTol)
              => ~converged

C8_Witness ==
    /\ mca_pc = "checked" /\ equilibrium_variable = "prices" /\ converged
    /\ \E c \in Commodities :
          market.supply[c] - prior_market.supply[c] > EquilibriumTol

(***************************************************************************)
(* Claims on the demand split                                              *)
(***************************************************************************)
\* Sum of the returned shares of one cell over all agents and all assets.
shares_sum(c) ==
    FSum([u \in DOMAIN split_result |->
            FSum([t \in DOMAIN split_result[u] |-> split_result[u][t][c]],
                 DOMAIN split_result[u])],
         DOMAIN split_result)

\* Reference quantity of one cell summed over all agents and all their assets.
reference_sum(c) ==
    NSum([u \in DOMAIN shares |->
            NSum([t \in DOMAIN shares[u] |-> shares[u][t][c]], DOMAIN shares[u])],
         DOMAIN shares)

WithinTol(x, y, tol) ==
    /\ IsFinite(x) /\ IsFinite(y)
    /\ FLe(x, FAdd(y, Num(tol)))
    /\ FLe(y, FAdd(x, Num(tol)))

\* C1: whenever _inner_split returns, in every cell of the proportional
\* branch (reference total > 1e-12) and of the equal-split branch (reference
\* total <= 1e-12, demand > 1e-12) the returned shares, summed over all agents
\* and all assets, equal the demand of the cell (within 1e-10).
C1_Completeness ==
    split_pc = "done" =>
        \A c \in Cells :
            (reference_sum(c) > Tol \/ demand[c] > Tol) =>
                WithinTol(shares_sum(c), Num(demand[c]), CompletenessTol)

\* C2: the equal-split fallback is decided cell by cell: the unassigned term
\* of a cell is demand / (agents x assets) exactly when the summed reference
\* quantity of that cell is <= 1e-12 and its demand is > 1e-12, it is 0 in
\* every other cell, and a cell with a zero reference total and no fallback
\* gets a share of 0 for every agent and asset, never an undefined value.
C2_CellwiseFallback ==
    split_pc = "done" =>
        \A c \in Cells :
            LET fallback == reference_sum(c) <= Tol /\ demand[c] > Tol
            IN  /\ fallback =>
                    unassigned[c] = FDiv(Num(demand[c]),
                        Num(Len(shares) * Cardinality(summed_assets(shares))))
                /\ ~fallback => unassigned[c] = Num(0)
                /\ \A u \in DOMAIN split_result : \A t \in DOMAIN split_result[u] :
                    /\ IsFinite(split_result[u][t][c])
                    /\ (~fallback /\ reference_sum(c) = 0) =>
                            split_result[u][t][c] = Num(0)

(***************************************************************************)
(* Claims on the factories                                                 *)
(***************************************************************************)
configured == settings.items
as_filters(q) == [i \in 1..Len(q) |-> Function("filter", q[i])]
expected_pipeline ==
    IF Len(configured) = 0
    THEN <<Function("initializer", DefaultInitializer)>>
    ELSE IF configured[1].name \in SEARCH_SPACE_INITIALIZERS
         THEN <<Function("initializer", configured[1])>> \o as_filters(Tail(configured))
         ELSE <<Function("initializer", DefaultInitializer)>> \o as_filters(configured)
resolvable_pipeline ==
    \A i \in 2..Len(expected_pipeline) : expected_pipeline[i].name \in SEARCH_SPACE_FILTERS

\* C13: the pipeline built by filters.factory runs exactly one initializer
\* first and then the configured filters in the configured order: the first
\* configured stage when it is a registered initializer, else the default
\* initializer prepended to all configured stages; with None or empty
\* settings the default initializer alone.
C13_PipelineOrder ==
    (fc_kind = "filters" /\ fc_pc # "settings" /\ resolvable_pipeline) =>
        /\ fc_pc # "raised"
        /\ functions = expected_pipeline
        /\ Len(ran) <= Len(functions)
        /\ \A i \in 1..Len(ran) : ran[i] = expected_pipeline[i]
        /\ fc_pc = "done" => ran = expected_pipeline

C13_Witness ==
    /\ fc_kind = "filters" /\ fc_pc = "done"
    /\ settings.form = "sequence" /\ Len(configured) = 2
    /\ configured[1].name = "compress" /\ configured[2].name = "same_enduse"
    /\ Len(ran) = 3

unknown_name ==
    IF fc_kind = "filters"
    THEN \E i \in 1..Len(configured) :
            configured[i].name \notin SEARCH_SPACE_INITIALIZERS \cup SEARCH_SPACE_FILTERS
    ELSE \E i \in 1..Len(configured) : configured[i].name \notin OBJECTIVES

\* C14: a name unknown to the registries, in the search-space settings or in
\* the objective settings, makes the factory call itself fail: no pipeline
\* function is returned and no stage is ever run.
C14_UnknownNameFailsAtFactory ==
    (fc_pc # "settings" /\ unknown_name) =>
        fc_pc = "raised" /\ functions = <<>> /\ ran = <<>> /\ table = <<>>

C14_Witness ==
    /\ fc_kind = "filters" /\ fc_pc = "raised"
    /\ Len(configured) = 3
    /\ configured[1].name = "initialize_from_technologies"
    /\ configured[2].name = "same_enduse"
    /\ configured[3].name = "no_such_filter"

same_name_twice ==
    \E i, j \in 1..Len(configured) : i # j /\ configured[i].name = configured[j].name
last_occurrence(name) ==
    CHOOSE i \in 1..Len(configured) :
        /\ configured[i].name = name
        /\ \A j \in (i + 1)..Len(configured) : configured[j].name # name

\* C17: objectives.factory given a list naming the same objective more than
\* once does not raise: it logs, and the function it returns evaluates every
\* configured objective in order into a table with one column per distinct
\* name, the column of a duplicated name holding its last occurrence's value.
C17_DuplicateObjectives ==
    (fc_kind = "objectives" /\ fc_pc # "settings" /\ same_name_twice /\ ~unknown_name) =>
        /\ fc_pc # "raised"
        /\ "critical" \in {log[i] : i \in 1..Len(log)}
        /\ \A i \in 1..Len(ran) :
              ran[i].name = configured[i].name /\ ran[i].kwargs = configured[i].kwargs
        /\ fc_pc = "done" =>
              /\ Len(ran) = Len(configured)
              /\ DOMAIN table = {configured[i].name : i \in 1..Len(configured)}
              /\ \A n \in DOMAIN table :
                    table[n] = <<n, configured[last_occurrence(n)].kwargs>>

C17_Witness ==
    /\ fc_kind = "objectives" /\ fc_pc = "done"
    /\ Len(configured) = 3
    /\ configured[1] = Stage("comfort", <<>>)
    /\ configured[2] = Stage("LCOE", <<>>)
    /\ configured[3] = Stage("comfort", <<1>>)
    /\ table["comfort"] = <<"comfort", <<1>>>>

(***************************************************************************)
(* Claims on the objectives                                                *)
(***************************************************************************)
\* C15: the register_objective wrapper raises whenever the result has a
\* dimension outside {asset, replacement} or a coordinate named technology; a
\* dtype that is neither numeric nor boolean only logs a warning; every result
\* that is not refused is returned unchanged but for its name, which is that
\* of the objective function.
C15_WrapperChecks ==
    ob_pc \in {"returned", "raised"} =>
        LET bad_shape == \/ \E d \in ob_result.dims : d \notin {"asset", "replacement"}
                         \/ "technology" \in ob_result.coords
            bad_dtype == ob_result.dtype \notin {"float64", "int64", "bool"}
        IN  /\ bad_shape <=> ob_pc = "raised"
            /\ bad_dtype <=> ob_log = <<"warning">>
            /\ ~bad_dtype <=> ob_log = <<>>
            /\ ob_pc = "returned" =>
                  ob_result.name = IF objective = "LCOE"
                                THEN "lifetime_levelized_cost_of_energy"
                                ELSE objective

\* a result with valid dimensions but of dtype object is returned with a warning
C15_Witness ==
    /\ ob_pc = "returned" /\ objective = "LCOE"
    /\ ob_result.dims = {"asset", "replacement"} /\ ob_result.dtype = "object"
    /\ ob_log = <<"warning">>

\* C16: every registered objective, called on well-formed arguments, returns
\* without raising, and the dimensions of what it returns are a subset of
\* {asset, replacement}, with no technology dimension.
C16_ObjectivesValid ==
    /\ ob_pc # "raised"
    /\ ob_pc = "returned" =>
          /\ ob_result.dims \subseteq {"asset", "replacement"}
          /\ "technology" \notin ob_result.dims

(***************************************************************************)
(* Claims on the new and retrofit demands                                  *)
(***************************************************************************)
Min(a, b) == IF a < b THEN a ELSE b
demands_computed == dm_pc \in {"new_consumption", "new_and_retro_demands"}
consumption_growth == dm_market.forecast - dm_market.current
\* unmet demand at the forecast year given the current-year capacity, as
\* unmet_demand computes it when no production method is named
unmet_at_forecast ==
    IF dm_market.forecast > dm_capacity.current
    THEN dm_market.forecast - dm_capacity.current ELSE 0

C19_RetrofitDemand ==
    dm_pc = "new_and_retro_demands" =>
        LET served == IF production_method = "maximum_production"
                      THEN dm_capacity.forecast ELSE dm_capacity.forecast \div 2
            rest == dm_market.forecast - new_demand - served
        IN  /\ service = served
            /\ retro_demand = IF rest > 0 THEN rest ELSE 0
            /\ retro_demand >= 0
            /\ retro_demand > 0 =>
                  dm_market.forecast = service + new_demand + retro_demand

C19_Witness ==
    /\ dm_pc = "new_and_retro_demands"
    /\ retro_demand > 0 /\ new_demand > 0 /\ service > 0

\* C20: the production method given to new_and_retro_demands is the one used
\* for the unmet demand that bounds the new demand: max(consumption -
\* P(market, capacity, technologies), 0) with that same P.
C20_SameProductionMethod ==
    dm_pc = "new_and_retro_demands" =>
        LET produced == IF production_method = "maximum_production"
                        THEN dm_capacity.current ELSE dm_capacity.current \div 2
            unmet == IF dm_market.forecast > produced
                     THEN dm_market.forecast - produced ELSE 0
        IN  /\ missing = unmet
            /\ new_demand =
                  Min(IF consumption_growth > 0 THEN consumption_growth ELSE 0, unmet)

(***************************************************************************)
(* Claims on Sector.next and Sector.investment                             *)
(***************************************************************************)
IsPrefix(s, t) == Len(s) <= Len(t) /\ s = SubSeq(t, 1, Len(s))

\* the steps of one call over n agents, in the order of the claim
ExpectedSteps(n) ==
    <<Step("interactions", 0), Step("demand_share", 0)>>
    \o [k \in 1..n |-> Step("agent.next", k)]
    \o <<Step("market_variables", 0), Step("outputs", 0)>>

\* the capacity committed by the calls of agent.next made so far
committed_so_far ==
    NSum([k \in DOMAIN sc_passed |-> sc_passed[k].committed], DOMAIN sc_passed)

\* C21: the steps of one Sector.next call are, in this order and once each:
\* the interaction function, the demand share, agent.next of every agent in
\* list order, the market variables (from the capacity as it is after the
\* investments), the output sink.  A call that raises has taken a prefix of
\* these steps.
C21_StepOrder ==
    sc_pc # "idle" =>
        /\ IsPrefix(sc_trace, ExpectedSteps(Len(sc_agents)))
        /\ sc_pc = "returned" =>
              /\ sc_trace = ExpectedSteps(Len(sc_agents))
              /\ sc_result = sector_capacity(sc_before) + committed_so_far

C21_Witness ==
    /\ sc_pc = "returned"
    /\ Len(sc_agents) = 2
    /\ \A k \in DOMAIN sc_passed : sc_passed[k].committed > 0

\* C22: every call of agent.next in one period is given the share the demand
\* share function returned for that agent and the capacity aggregated before
\* the first agent's step: the capacity now owned, less everything committed
\* in this period.
C22_FrozenSnapshot ==
    \A k \in DOMAIN sc_passed :
        /\ sc_passed[k].share = sc_shares[sc_passed[k].agent]
        /\ sc_passed[k].capacity = sector_capacity(sc_agents) - committed_so_far

\* the second agent is called after the first has committed capacity
C22_Witness ==
    /\ Len(sc_passed) = 2
    /\ sc_passed[1].committed > 0
    /\ sc_passed[2].capacity < sector_capacity(sc_agents) - sc_passed[2].committed

configured_quantities == {ch_parameters[i] : i \in DOMAIN ch_parameters}

RECURSIVE Flatten(_)
Flatten(lists) ==
    IF lists = <<>> THEN <<>> ELSE Head(lists) \o Flatten(Tail(lists))

requested_names(quantity) ==
    {quantity.value[i] : i \in DOMAIN quantity.value}

\* C29: a mapping returned by match_quantities has the requested names as its
\* keys, a Text counting as one name; a Text with a DataArray or a Dataset
\* gives one entry, a list of names with a list of arrays of the same length
\* pairs them in order, a length mismatch raises ValueError, and the other
\* combinations of types, a Text with a list of arrays included, raise
\* TypeError (a name missing from a Dataset being a KeyError).
C29_MatchQuantities ==
    mq_pc = "done" =>
        LET names == requested_names(mq_quantity)
            listed == mq_quantity.kind = "list" /\ mq_data.kind = "list"
        IN  /\ mq_result.error = "none" => DOMAIN mq_result.result = names
            /\ (mq_quantity.kind = "Text" /\ mq_data.kind = "DataArray") =>
                  mq_result = MatchOutcome("none", [q \in names |-> mq_data.arrays[1]])
            /\ (listed /\ Len(mq_quantity.value) = Len(mq_data.arrays)) =>
                  /\ mq_result.error = "none"
                  /\ \A i \in DOMAIN mq_quantity.value :
                        (\A j \in DOMAIN mq_quantity.value :
                            mq_quantity.value[j] = mq_quantity.value[i] => j <= i)
                        => mq_result.result[mq_quantity.value[i]] = mq_data.arrays[i]
            /\ (listed /\ Len(mq_quantity.value) # Len(mq_data.arrays)) =>
                  mq_result.error = "ValueError"
            /\ (mq_quantity.kind = "Text" /\ mq_data.kind = "list") =>
                  mq_result.error = "TypeError"
            /\ (mq_quantity.kind = "None" \/ mq_data.kind = "None"
                  \/ (mq_quantity.kind = "list" /\ mq_data.kind = "DataArray")) =>
                  mq_result.error = "TypeError"

(***************************************************************************)
(* Claims on the discount factors of net_present_value                     *)
(***************************************************************************)
\* C26: for a candidate of technical life n and interest rate r, with the
\* agent at year y, the factor of year t is 1/(1+r)^(t-y) when t < y+n and 0
\* from y+n on, so that exactly n years contribute, whatever the other
\* candidates.
C26_DiscountFactor ==
    np_pc = "rates" =>
        \A t \in Technologies :
            LET y == np_agent.year
                n == np_tech.technical_life[t]
                r == np_tech.interest_rate[t]
            IN  /\ \A yr \in DOMAIN np_rates[t] :
                      np_rates[t][yr] =
                          IF yr < y + n THEN Frac(1, Power(1 + r, yr - y))
                          ELSE Num(0)
                /\ Cardinality({yr \in DOMAIN np_rates[t] : ~IsZero(np_rates[t][yr])}) = n

(***************************************************************************)
(* Claims on the keys of the demand shares                                 *)
(***************************************************************************)
\* C27: with every agent in a region of the market, new_and_retro raises
\* nothing and returns a share for every agent, whether or not a region holds
\* a retrofit agent and a new agent has a retrofit agent of its name there.
C27_ShareForEveryAgent ==
    /\ nr_pc \in {"idle", "regions", "returned"}
    /\ nr_pc = "returned" => nr_results = DOMAIN nr_agents

\* C30: demand_share.factory builds its function for every settings; the name
\* is looked up in the registry when that function is called, a name that is
\* not registered raising KeyError there; and the registered function gets
\* the configured parameters, overridden by the caller's keyword arguments
\* of the same name.
C30_LookupAtCall ==
    /\ fa_pc \in {"idle", "given", "built", "returned", "KeyError"}
    /\ fa_pc \in {"built", "returned", "KeyError"} =>
          /\ fa_name = share_name(fa_settings)
          /\ fa_pc = "returned" => fa_name \in fa_registry
          /\ fa_pc = "KeyError" => fa_name \notin fa_registry
    /\ fa_pc = "returned" =>
          /\ fa_called.function = fa_name
          /\ DOMAIN fa_called.keywords
                = DOMAIN share_params(fa_settings) \cup DOMAIN fa_kwargs
          /\ \A k \in DOMAIN fa_kwargs : fa_called.keywords[k] = fa_kwargs[k]
          /\ \A k \in DOMAIN share_params(fa_settings) \ DOMAIN fa_kwargs :
                fa_called.keywords[k] = fa_settings.params[k]

C30_Witness ==
    /\ fa_pc = "returned"
    /\ fa_settings.kind = "mapping"
    /\ \E k \in DOMAIN fa_kwargs \cap DOMAIN fa_params :
          fa_kwargs[k] # fa_params[k]

=============================================================================
